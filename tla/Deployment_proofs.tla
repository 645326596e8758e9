-------------------------- MODULE Deployment_proofs --------------------------
(***************************************************************************)
(* Proofs about Deployment and EtherscanVerification, for any sequence of  *)
(* processes and any number of contracts.                                  *)
(*                                                                         *)
(* Verification: the attempts of one call of verifyContract, counted.      *)
(* Scripts: a logic of programs for the tasks of DeploymentTasks.  A fact  *)
(* says something of a contract instance of the process; every step needs  *)
(* facts, gives some and breaks some, and Fits(script, R, Q, signer) says  *)
(* that a script run where R holds never lacks what a step needs and ends  *)
(* where Q holds.  Every task of hardhat.config.ts fits (LoadedTasksFit).  *)
(* The states: what a process has still to do always fits the facts of the *)
(* state it is in (ScriptFits), through crashes, mining and nested tasks.  *)
(* The set-up of the test suites: a second logic of the same form, with    *)
(* facts about what a proxy is, runs and was approved for, under whichever *)
(* of its names: an instance of the process or an entry of the file.       *)
(*                                                                         *)
(* The end of a process: what is left to do, as four numbers of which each *)
(* step lowers the first that it changes.  That fairness then brings the   *)
(* end about (ProcessEnds) is left to TLC.                                 *)
(***************************************************************************)
EXTENDS Deployment, SumTheorems, SequenceTheorems, TLAPS

------------------------------------------------------------------------------
(* Verification *)

(***************************************************************************)
(* ExhaustedOnlyUnnoticed with what holds while the call runs: the answers *)
(* lost are those since the publication, after which no other can be       *)
(* rejected, and the attempts count down to the one with all sources.      *)
(***************************************************************************)
AttemptsCounted ==
  /\ vpc # "returned" =>
       /\ times \in 0 .. Attempts
       /\ times = 0 => ~relatedSources
       /\ IF publishedAt = 0 THEN lost = 0
          ELSE /\ publishedAt \in times + 1 .. Attempts
               /\ lost = publishedAt - times
               /\ address \in published
  /\ ExhaustedOnlyUnnoticed

LEMMA SmallerOfTwo ==
  ASSUME NEW x \in Nat, NEW y \in Nat, x <= y
  PROVE  Min({x, y}) = x
<1>1. x \in {x, y} /\ \A z \in {x, y} : x <= z
  OBVIOUS
<1>2. \A z \in {x, y} : (\A w \in {x, y} : z <= w) => z = x
  OBVIOUS
<1>. QED  BY <1>1, <1>2 DEF Min

\* An attempt that is not the explorer's last word costs one of those left,
\* and loses its answer when the source is already published.
LEMMA RejectedCounts ==
  ASSUME AttemptsCounted, vpc = "run", times >= 1, NEW found,
         RunRejected(found, relatedSources /\ times > 1), UNCHANGED <<environment, address>>
  PROVE  AttemptsCounted'
<1>1. times \in 0 .. Attempts /\ times \in 1 .. 4 /\ Attempts = 4
  BY DEF AttemptsCounted, Attempts
<1>2. PICK error \in Answers(address, found) \ {"verified"} :
        /\ \/ UNCHANGED <<published, publishedAt>>
           \/ error \in OtherErrors /\ "verified" \in Answers(address, found) /\ Publish
        /\ lost' = IF error \in OtherErrors /\ publishedAt' # 0 THEN Min({lost + 1, Attempts}) ELSE lost
        /\ Catch(error, relatedSources /\ times > 1)
  BY DEF RunRejected
<1>3. CASE error \in okErrors \cup fatalErrors
  <2>1. vpc' = "returned" /\ result' = error /\ error # "exhausted"
    BY <1>2, <1>3 DEF Catch, Return, okErrors, fatalErrors
  <2>. QED  BY <2>1 DEF AttemptsCounted, ExhaustedOnlyUnnoticed
<1>4. CASE error \notin okErrors \cup fatalErrors
  <2>1. /\ vpc' = "delay" /\ times' = times - 1
        /\ relatedSources' = ((relatedSources /\ times > 1) /\ error # unableVerifyError)
        /\ result' = result
    BY <1>2, <1>4 DEF Catch, Retry
  <2>2. times' \in 0 .. Attempts /\ (times' = 0 => ~relatedSources')
    <3>1. times' \in 0 .. Attempts /\ (times' = 0 => ~(times > 1))
      BY <1>1, <2>1
    <3>. QED  BY <2>1, <3>1, Zenon
  <2>3. CASE publishedAt # 0
    <3>1. /\ publishedAt \in times + 1 .. Attempts /\ lost = publishedAt - times
          /\ address \in published
      BY <2>3 DEF AttemptsCounted
    <3>2. Answers(address, found) = okErrors \cup OtherErrors /\ "verified" \notin okErrors \cup OtherErrors
      BY <3>1 DEF Answers, okErrors, OtherErrors
    <3>3. error \in OtherErrors /\ published' = published /\ publishedAt' = publishedAt
      BY <1>2, <1>4, <3>2
    <3>4. lost + 1 \in Nat /\ lost + 1 <= Attempts
      BY <1>1, <3>1
    <3>5. lost' = lost + 1
      BY <1>1, <1>2, <2>3, <3>3, <3>4, SmallerOfTwo
    <3>6. /\ publishedAt' # 0 /\ publishedAt' \in times' + 1 .. Attempts
          /\ lost' = publishedAt' - times' /\ address' \in published'
      BY <1>1, <2>1, <2>3, <3>1, <3>3, <3>5
    <3>. QED  BY <2>1, <2>2, <3>6 DEF AttemptsCounted, ExhaustedOnlyUnnoticed
  <2>4. CASE publishedAt = 0 /\ publishedAt' = publishedAt
    <3>1. lost = 0 /\ lost' = 0 /\ publishedAt' = 0
      BY <1>2, <2>4 DEF AttemptsCounted
    <3>. QED  BY <2>1, <2>2, <3>1 DEF AttemptsCounted, ExhaustedOnlyUnnoticed
  <2>5. CASE publishedAt = 0 /\ error \in OtherErrors /\ Publish
    <3>1. /\ publishedAt' = times /\ publishedAt' # 0 /\ published' = published \cup {address}
          /\ address' = address
      BY <1>1, <2>5 DEF Publish
    <3>2. lost = 0
      BY <2>5 DEF AttemptsCounted
    <3>3. lost' = 1
      BY <1>1, <1>2, <2>5, <3>1, <3>2, SmallerOfTwo
    <3>4. /\ publishedAt' \in times' + 1 .. Attempts
          /\ lost' = publishedAt' - times' /\ address' \in published'
      BY <1>1, <2>1, <3>1, <3>3
    <3>. QED  BY <2>1, <2>2, <3>1, <3>4 DEF AttemptsCounted, ExhaustedOnlyUnnoticed
  <2>. QED  BY <1>2, <2>3, <2>4, <2>5
<1>. QED  BY <1>3, <1>4

LEMMA VerificationCounts ==
  ASSUME AttemptsCounted, NEW found, VerifyStep(found)
  PROVE  AttemptsCounted'
<1>1. CASE delay
  BY <1>1 DEF delay, AttemptsCounted, ExhaustedOnlyUnnoticed, explorer
<1>2. CASE RunTask(found)
  <2>1. CASE RunVerified(found)
    BY <2>1 DEF RunVerified, Return, AttemptsCounted, ExhaustedOnlyUnnoticed
  <2>2. CASE RunRejected(found, relatedSources /\ times > 1)
    BY <1>2, <2>2, RejectedCounts DEF RunTask
  <2>. QED  BY <1>2, <2>1, <2>2 DEF RunTask
<1>3. CASE GiveUp
  <2>1. /\ vpc = "run" /\ times = 0 /\ vpc' = "returned" /\ tempFiles' = tempFiles \ {address}
        /\ UNCHANGED <<address, relatedSources, publishedAt, lost>>
    BY <1>3 DEF GiveUp, Return, Cleanup, explorer
  <2>2. ~relatedSources /\ (publishedAt # 0 => publishedAt \in 1 .. Attempts /\ lost = publishedAt - 0)
    BY <2>1 DEF AttemptsCounted
  <2>. QED  BY <2>1, <2>2 DEF AttemptsCounted, ExhaustedOnlyUnnoticed, Attempts
<1>. QED  BY <1>1, <1>2, <1>3 DEF VerifyStep

LEMMA NewCallCounts ==
  ASSUME NEW a, verifyContract(a)
  PROVE  AttemptsCounted'
BY DEF verifyContract, AttemptsCounted, ExhaustedOnlyUnnoticed, Attempts

\* Only a call of verifyContract, its steps and a crash touch its variables.
LEMMA RestKeepsVerification ==
  ASSUME Next
  PROVE  \/ Verify /\ verifyContract(inst[Head(todo).role])
         \/ VerifyStep(HasCode(address))
         \/ /\ vpc' = "returned" /\ result' = "none"
            /\ UNCHANGED <<address, times, relatedSources, tempFiles, explorer>>
         \/ UNCHANGED <<call, tempFiles, explorer>>
<1>1. CASE Start
  BY <1>1 DEF Start
<1>2. CASE Crash
  BY <1>2 DEF Crash
<1>3. CASE MineNext
  BY <1>3 DEF MineNext, Mine, verifyVars, call
<1>4. CASE ProcessStep
  <2>. USE DEF Abort, Done, verifyVars, call
  <2>1. CASE Finish \/ SetDRE \/ UseDRE \/ CheckVerification \/ RequireParams \/ RequireImpls
    BY <2>1 DEF Finish, SetDRE, UseDRE, CheckVerification, RequireParams, RequireImpls
  <2>2. CASE Defender \/ Given \/ Run \/ Encode \/ Lookup
    BY <2>2 DEF Defender, Given, Run, Encode, Lookup
  <2>3. CASE Send \/ Wait
    BY <2>3 DEF Send, Wait
  <2>4. CASE ProxyInit \/ Upgrade
    BY <2>4 DEF ProxyInit, Upgrade
  <2>5. CASE Approve \/ Create \/ Register
    BY <2>5 DEF Approve, Create, Register
  <2>6. CASE Verify
    BY <2>6 DEF Verify
  <2>7. CASE Verifying
    BY <2>7 DEF Verifying
  <2>. QED  BY <1>4, <2>1, <2>2, <2>3, <2>4, <2>5, <2>6, <2>7 DEF ProcessStep
<1>. QED  BY <1>1, <1>2, <1>3, <1>4 DEF Next

LEMMA AttemptsKept ==
  ASSUME AttemptsCounted, [Next]_vars
  PROVE  AttemptsCounted'
<1>1. ASSUME UNCHANGED <<call, tempFiles, explorer>>
      PROVE  AttemptsCounted'
  BY <1>1 DEF AttemptsCounted, ExhaustedOnlyUnnoticed, call, explorer
<1>2. ASSUME vpc' = "returned" /\ result' = "none"
      PROVE  AttemptsCounted'
  BY <1>2 DEF AttemptsCounted, ExhaustedOnlyUnnoticed
<1>3. UNCHANGED vars => UNCHANGED <<call, tempFiles, explorer>>
  BY DEF vars, verifyVars, call
<1>. QED
  BY <1>1, <1>2, <1>3, NewCallCounts, VerificationCounts, RestKeepsVerification

(***************************************************************************)
(* EtherscanVerification: a call that ends with "Errors after all the      *)
(* retries" for a source it got published has lost every answer since, has *)
(* tried with all sources and has removed its file - for any number of     *)
(* calls, by any task, with answers and crashes in any order.              *)
(***************************************************************************)
THEOREM ExhaustedUnnoticed == Spec => []ExhaustedOnlyUnnoticed
<1>1. Init => AttemptsCounted
  BY DEF Init, VerifyInit, AttemptsCounted, ExhaustedOnlyUnnoticed
<1>2. AttemptsCounted /\ [Next]_vars => AttemptsCounted'
  BY AttemptsKept
<1>3. AttemptsCounted => ExhaustedOnlyUnnoticed
  BY DEF AttemptsCounted
<1>. QED  BY <1>1, <1>2, <1>3, PTL DEF Spec

------------------------------------------------------------------------------
(* Scripts.  What a process knows of its contract instances, and of the    *)
(* file, is a set of facts.  A step needs some, establishes some and       *)
(* destroys some; a script Fits when each step finds what it needs.  So    *)
(* R Fits script leads to Q is the triple of a logic of programs, with the *)
(* rule for sequences (Sequenced).                                         *)

ImplRoles == {"stkREXImpl", "stkBptImpl"}

Facts == [sort : {"present", "own", "kind", "mined", "stored"},
          role : Roles, kind : Kinds, key : Keys]

\* What the fact f says: an instance is set; it is a contract on this chain;
\* of f.kind; mined; what the file has under f.key.
FactHolds(f) ==
  /\ f.sort = "present" => inst[f.role] # 0
  /\ f.sort # "present" => inst[f.role] \in 1 .. Len(chain[network])
  /\ f.sort = "kind" => Here(inst[f.role]).kind = f.kind
  /\ f.sort = "mined" => Here(inst[f.role]).status = "mined"
  /\ f.sort = "stored" => db[network][f.key] = inst[f.role]

FactsNow == {f \in Facts : FactHolds(f)}

Needs(x, f) ==
  \/ x.op \in {"wait", "verify", "register"} /\ f.sort = "own" /\ f.role = x.role
  \/ x.op = "create" /\ f.sort = "present" /\ f.role \in x.impls

Gives(x, f) ==
  \/ x.op = "send" /\ f.role = x.role /\ f.sort = "own"
  \/ x.op = "send" /\ f.role = x.role /\ f.sort = "kind" /\ f.kind = x.kind
  \/ x.op = "wait" /\ f.role = x.role /\ f.sort = "mined"
  \/ x.op = "register" /\ f.role = x.role /\ f.key = x.key /\ f.sort = "stored"
  \/ x.op = "requireImpls" /\ f.role \in x.impls /\ f.sort = "present"

Breaks(x, f) ==
  \/ x.op \in {"send", "lookup", "given"} /\ f.role = x.role
  \/ x.op = "register" /\ f.key = x.key /\ f.sort = "stored"
  \/ x.op = "run"

\* The fields of a step; who sends the implementations and the proposal
FitStep(x, signer) ==
  /\ x.op \in {"wait", "verify", "register", "send", "lookup", "given"} => x.role \in Roles
  /\ x.op \in {"register", "lookup"} => x.key \in Keys
  /\ x.op = "send" /\ x.role \in ImplRoles => x.from = signer
  /\ x.op = "lookup" => x.role \notin ImplRoles
  /\ x.op = "requireImpls" => x.impls \subseteq ImplRoles
  /\ x.op = "create" => x.impls \subseteq ImplRoles /\ x.from = signer
  /\ x.op = "run" /\ x.task \in TaskNames => x.flags \in Flags /\ Signer(x.flags) = signer

After(R, x) == {f \in Facts : Gives(x, f) \/ (f \in R /\ ~Breaks(x, f))}

\* Before step i of the script s the fact f is known, if those of R are at first.
Known(f, s, i, R) ==
  \/ f \in R /\ \A k \in 1 .. i - 1 : ~Breaks(s[k], f)
  \/ \E j \in 1 .. i - 1 : Gives(s[j], f) /\ \A k \in j + 1 .. i - 1 : ~Breaks(s[k], f)

Fits(s, R, Q, signer) ==
  /\ s \in Seq(Range(s))
  /\ Q \subseteq Facts
  /\ \A i \in 1 .. Len(s) : FitStep(s[i], signer)
  /\ \A i \in 1 .. Len(s) : \A f \in Facts : Needs(s[i], f) => Known(f, s, i, R)
  /\ \A f \in Q : Known(f, s, Len(s) + 1, R)

LEMMA SeqOfItsRange ==
  ASSUME NEW S, NEW s \in Seq(S)
  PROVE  s \in Seq(Range(s))
<1>1. /\ Len(s) \in Nat /\ DOMAIN s = 1 .. Len(s) /\ s = [i \in 1 .. Len(s) |-> s[i]]
  BY LenProperties
<1>2. \A i \in 1 .. Len(s) : s[i] \in Range(s)
  BY <1>1 DEF Range
<1>3. s \in [1 .. Len(s) -> Range(s)]
  BY <1>1, <1>2
<1>. QED  BY <1>1, <1>3

LEMMA Weakened ==
  ASSUME NEW s, NEW R, NEW R2, NEW Q, NEW Q2, NEW d,
         Fits(s, R2, Q2, d), R2 \subseteq R, Q \subseteq Q2
  PROVE  Fits(s, R, Q, d)
<1>1. \A f, i : Known(f, s, i, R2) => Known(f, s, i, R)
  BY DEF Known
<1>. QED  BY <1>1 DEF Fits

LEMMA Sequenced ==
  ASSUME NEW s, NEW t, NEW R, NEW Q, NEW P, NEW d,
         Fits(s, R, Q, d), Fits(t, Q, P, d)
  PROVE  Fits(s \o t, R, P, d)
<1>. DEFINE S == Range(s) \cup Range(t)
            n == Len(s)
            u == s \o t
<1>1. s \in Seq(S) /\ t \in Seq(S)
  BY SeqMonotonic DEF Fits
<1>2. /\ u \in Seq(S) /\ n \in Nat /\ Len(t) \in Nat /\ Len(u) = n + Len(t)
      /\ \A i \in 1 .. n : u[i] = s[i]
      /\ \A i \in 1 .. Len(t) : u[n + i] = t[i]
  <2>1. n \in Nat /\ Len(t) \in Nat
    BY <1>1, LenProperties
  <2>2. /\ u \in Seq(S) /\ Len(u) = n + Len(t)
        /\ \A i \in 1 .. n + Len(t) : u[i] = IF i <= n THEN s[i] ELSE t[i - n]
    BY <1>1, ConcatProperties
  <2>3. \A i \in 1 .. Len(t) : n + i \in 1 .. n + Len(t) /\ ~(n + i <= n) /\ (n + i) - n = i
    BY <2>1
  <2>. QED  BY <2>1, <2>2, <2>3
<1>3. u \in Seq(Range(u))
  BY <1>2, SeqOfItsRange
<1>4. ASSUME NEW f, NEW i \in 1 .. n + 1, Known(f, s, i, R)
      PROVE  Known(f, u, i, R)
  <2>1. \A k \in 1 .. i - 1 : u[k] = s[k]
    BY <1>2
  <2>. HIDE DEF u, n
  <2>2. CASE f \in R /\ \A k \in 1 .. i - 1 : ~Breaks(s[k], f)
    BY <2>1, <2>2 DEF Known
  <2>3. CASE \E j \in 1 .. i - 1 : Gives(s[j], f) /\ \A k \in j + 1 .. i - 1 : ~Breaks(s[k], f)
    <3>1. PICK j \in 1 .. i - 1 : Gives(s[j], f) /\ \A k \in j + 1 .. i - 1 : ~Breaks(s[k], f)
      BY <2>3
    <3>2. \A k \in j + 1 .. i - 1 : k \in 1 .. i - 1
      BY <1>2, <3>1
    <3>3. Gives(u[j], f) /\ \A k \in j + 1 .. i - 1 : ~Breaks(u[k], f)
      BY <2>1, <3>1, <3>2
    <3>. QED  BY <3>1, <3>3 DEF Known
  <2>. QED  BY <1>4, <2>2, <2>3 DEF Known
<1>5. ASSUME NEW f, NEW i \in 1 .. Len(t) + 1, Known(f, t, i, Q), Q \subseteq Facts,
             \A g \in Q : Known(g, s, n + 1, R)
      PROVE  Known(f, u, n + i, R)
  <2>1. \A k \in 1 .. i - 1 : u[n + k] = t[k]
    BY <1>2
  <2>2. \A k \in n + 1 .. n + i - 1 : k - n \in 1 .. i - 1 /\ n + (k - n) = k
    BY <1>2
  <2>0. (n + i) - 1 = n + i - 1
    BY <1>2
  <2>. HIDE DEF u, n
  <2>3. CASE f \in Q /\ \A k \in 1 .. i - 1 : ~Breaks(t[k], f)
    <3>1. Known(f, u, n + 1, R)
      BY <1>2, <1>4, <1>5, <2>3
    <3>2. \A k \in n + 1 .. n + i - 1 : ~Breaks(u[k], f)
      BY <2>1, <2>2, <2>3
    <3>3. CASE f \in R /\ \A k \in 1 .. (n + 1) - 1 : ~Breaks(u[k], f)
      <4>1. \A k \in 1 .. n + i - 1 : k \in 1 .. (n + 1) - 1 \/ k \in n + 1 .. n + i - 1
        BY <1>2
      <4>2. f \in R /\ \A k \in 1 .. n + i - 1 : ~Breaks(u[k], f)
        BY <3>2, <3>3, <4>1
      <4>. QED  BY <2>0, <4>2 DEF Known
    <3>4. CASE \E j \in 1 .. (n + 1) - 1 :
                 Gives(u[j], f) /\ \A k \in j + 1 .. (n + 1) - 1 : ~Breaks(u[k], f)
      <4>1. PICK j \in 1 .. (n + 1) - 1 :
                   Gives(u[j], f) /\ \A k \in j + 1 .. (n + 1) - 1 : ~Breaks(u[k], f)
        BY <3>4
      <4>2. /\ j \in 1 .. n + i - 1
            /\ \A k \in j + 1 .. n + i - 1 : k \in j + 1 .. (n + 1) - 1 \/ k \in n + 1 .. n + i - 1
        BY <1>2, <4>1
      <4>3. \A k \in j + 1 .. n + i - 1 : ~Breaks(u[k], f)
        BY <3>2, <4>1, <4>2
      <4>4. \E m \in 1 .. n + i - 1 :
                Gives(u[m], f) /\ \A k \in m + 1 .. n + i - 1 : ~Breaks(u[k], f)
        BY <4>1, <4>2, <4>3
      <4>. QED  BY <2>0, <4>4 DEF Known
    <3>. QED  BY <3>1, <3>3, <3>4 DEF Known
  <2>4. CASE \E j \in 1 .. i - 1 : Gives(t[j], f) /\ \A k \in j + 1 .. i - 1 : ~Breaks(t[k], f)
    <3>1. PICK j \in 1 .. i - 1 : Gives(t[j], f) /\ \A k \in j + 1 .. i - 1 : ~Breaks(t[k], f)
      BY <2>4
    <3>2. /\ n + j \in 1 .. n + i - 1
          /\ \A k \in n + j + 1 .. n + i - 1 : k - n \in j + 1 .. i - 1 /\ k - n \in 1 .. i - 1
                                              /\ n + (k - n) = k
      BY <1>2, <3>1
    <3>3. Gives(u[n + j], f) /\ \A k \in n + j + 1 .. n + i - 1 : ~Breaks(u[k], f)
      BY <2>1, <3>1, <3>2
    <3>4. \E m \in 1 .. n + i - 1 :
                Gives(u[m], f) /\ \A k \in m + 1 .. n + i - 1 : ~Breaks(u[k], f)
      BY <3>2, <3>3
    <3>. QED  BY <2>0, <3>4 DEF Known
  <2>. QED  BY <1>5, <2>3, <2>4 DEF Known
<1>6. Q \subseteq Facts /\ P \subseteq Facts /\ (\A g \in Q : Known(g, s, n + 1, R))
      /\ (\A f \in P : Known(f, t, Len(t) + 1, Q))
  BY DEF Fits
<1>7. \A i \in 1 .. Len(u) : \/ i \in 1 .. n /\ i \in 1 .. n + 1
                             \/ i - n \in 1 .. Len(t) /\ i - n \in 1 .. Len(t) + 1 /\ n + (i - n) = i
  BY <1>2
<1>8. ASSUME NEW i \in 1 .. Len(u)
      PROVE  FitStep(u[i], d) /\ \A f \in Facts : Needs(u[i], f) => Known(f, u, i, R)
  <2>1. CASE i \in 1 .. n /\ i \in 1 .. n + 1
    <3>1. u[i] = s[i] /\ FitStep(s[i], d) /\ \A f \in Facts : Needs(s[i], f) => Known(f, s, i, R)
      BY <1>2, <2>1 DEF Fits
    <3>. QED  BY <1>4, <2>1, <3>1
  <2>2. CASE i - n \in 1 .. Len(t) /\ i - n \in 1 .. Len(t) + 1 /\ n + (i - n) = i
    <3>1. /\ u[i] = t[i - n] /\ FitStep(t[i - n], d)
          /\ \A f \in Facts : Needs(t[i - n], f) => Known(f, t, i - n, Q)
      BY <1>2, <2>2 DEF Fits
    <3>2. ASSUME NEW f \in Facts, Known(f, t, i - n, Q)
          PROVE  Known(f, u, i, R)
      <4>1. Known(f, u, n + (i - n), R)
        BY <1>5, <1>6, <2>2, <3>2
      <4>. QED  BY <2>2, <4>1
    <3>. QED  BY <3>1, <3>2
  <2>. QED  BY <1>7, <2>1, <2>2
<1>9. \A f \in P : Known(f, u, Len(u) + 1, R)
  <2>1. Len(t) + 1 \in 1 .. Len(t) + 1 /\ n + (Len(t) + 1) = Len(u) + 1
    BY <1>2
  <2>2. ASSUME NEW f \in P PROVE Known(f, u, n + (Len(t) + 1), R)
    BY <1>5, <1>6, <2>1
  <2>. QED  BY <2>1, <2>2
<1>. HIDE DEF u, n
<1>. QED  BY <1>3, <1>6, <1>8, <1>9 DEF Fits, u

LEMMA OneStep ==
  ASSUME NEW x, NEW R, NEW d, FitStep(x, d), \A f \in Facts : Needs(x, f) => f \in R
  PROVE  Fits(<<x>>, R, After(R, x), d)
<1>. DEFINE s == <<x>>
<1>1. s \in Seq({x}) /\ Len(s) = 1 /\ s[1] = x
  OBVIOUS
<1>2. s \in Seq(Range(s))
  BY <1>1, SeqOfItsRange
<1>. HIDE DEF s
<1>3. \A f \in R : Known(f, s, 1, R)
  BY DEF Known
<1>4. \A f \in After(R, x) : Known(f, s, Len(s) + 1, R)
  BY <1>1 DEF Known, After
<1>5. Fits(s, R, After(R, x), d)
  BY <1>1, <1>2, <1>3, <1>4 DEF Fits, After
<1>. QED  BY <1>5 DEF s

LEMMA NoStep ==
  ASSUME NEW R, NEW Q, NEW d, Q \subseteq R, Q \subseteq Facts
  PROVE  Fits(<<>>, R, Q, d)
<1>1. Len(<<>>) = 0 /\ <<>> \in Seq(Range(<<>>))
  OBVIOUS
<1>. QED  BY <1>1 DEF Fits, Known

LEMMA OnlySteps ==
  ASSUME NEW flag, NEW t, NEW R, NEW Q, NEW d, Fits(t, R, Q, d), Q \subseteq R
  PROVE  Fits(Only(flag, t), R, Q, d)
<1>1. Fits(<<>>, R, Q, d)
  BY NoStep DEF Fits
<1>. QED  BY <1>1 DEF Only

\* What a script that fits has still to do after its first step
LEMMA FirstStep ==
  ASSUME NEW s, NEW R, NEW Q, NEW d, Fits(s, R, Q, d), s # <<>>
  PROVE  /\ FitStep(Head(s), d)
         /\ \A f \in Facts : Needs(Head(s), f) => f \in R
         /\ Fits(Tail(s), After(R, Head(s)), Q, d)
<1>. DEFINE x == Head(s)
            t == Tail(s)
            n == Len(t)
<1>1. s \in Seq(Range(s))
  BY DEF Fits
<1>2. /\ t \in Seq(Range(s)) /\ n \in Nat /\ Len(s) = n + 1 /\ x = s[1]
      /\ \A i \in 1 .. n : t[i] = s[i + 1]
  BY <1>1, HeadTailProperties, LenProperties
<1>. HIDE DEF x, t, n
<1>3. t \in Seq(Range(t))
  BY <1>2, SeqOfItsRange
<1>4. FitStep(x, d) /\ \A f \in Facts : Needs(x, f) => f \in R
  <2>1. 1 \in 1 .. Len(s)
    BY <1>2
  <2>2. FitStep(s[1], d) /\ \A f \in Facts : Needs(s[1], f) => Known(f, s, 1, R)
    BY <2>1 DEF Fits
  <2>3. \A f : Known(f, s, 1, R) => f \in R
    BY DEF Known
  <2>. QED  BY <1>2, <2>2, <2>3
<1>5. ASSUME NEW f \in Facts, NEW i \in 1 .. n + 1, Known(f, s, i + 1, R)
      PROVE  Known(f, t, i, After(R, x))
  <2>1. \A k \in 1 .. i - 1 : t[k] = s[k + 1] /\ k + 1 \in 1 .. i
    BY <1>2
  <2>2. (i + 1) - 1 = i
    BY <1>2
  <2>3. CASE f \in R /\ \A k \in 1 .. i : ~Breaks(s[k], f)
    <3>1. ~Breaks(x, f)
      BY <1>2, <2>3
    <3>2. \A k \in 1 .. i - 1 : ~Breaks(t[k], f)
      BY <2>1, <2>3
    <3>. QED  BY <2>3, <3>1, <3>2 DEF Known, After
  <2>4. CASE \E j \in 1 .. i : Gives(s[j], f) /\ \A k \in j + 1 .. i : ~Breaks(s[k], f)
    <3>1. PICK j \in 1 .. i : Gives(s[j], f) /\ \A k \in j + 1 .. i : ~Breaks(s[k], f)
      BY <2>4
    <3>2. CASE j = 1
      <4>1. f \in After(R, x)
        BY <1>2, <3>1, <3>2 DEF After
      <4>2. \A k \in 1 .. i - 1 : k + 1 \in j + 1 .. i
        BY <1>2, <3>2
      <4>3. \A k \in 1 .. i - 1 : ~Breaks(t[k], f)
        BY <2>1, <3>1, <4>2
      <4>. QED  BY <4>1, <4>3 DEF Known
    <3>3. CASE j # 1
      <4>1. /\ j - 1 \in 1 .. i - 1 /\ (j - 1) + 1 = j
            /\ \A k \in (j - 1) + 1 .. i - 1 : k \in 1 .. i - 1 /\ k + 1 \in j + 1 .. i
        BY <1>2, <3>1, <3>3
      <4>2. Gives(t[j - 1], f) /\ \A k \in (j - 1) + 1 .. i - 1 : ~Breaks(t[k], f)
        BY <2>1, <3>1, <4>1
      <4>. QED  BY <4>1, <4>2 DEF Known
    <3>. QED  BY <3>2, <3>3
  <2>. QED  BY <1>5, <2>2, <2>3, <2>4 DEF Known
<1>6. ASSUME NEW i \in 1 .. n
      PROVE  FitStep(t[i], d) /\ \A f \in Facts : Needs(t[i], f) => Known(f, t, i, After(R, x))
  <2>1. i + 1 \in 1 .. Len(s) /\ i \in 1 .. n + 1
    BY <1>2
  <2>2. t[i] = s[i + 1]
    BY <1>2
  <2>3. FitStep(s[i + 1], d) /\ \A f \in Facts : Needs(s[i + 1], f) => Known(f, s, i + 1, R)
    BY <2>1 DEF Fits
  <2>. QED  BY <1>5, <2>1, <2>2, <2>3
<1>7. \A f \in Q : f \in Facts /\ Known(f, t, n + 1, After(R, x))
  <2>1. n + 1 \in 1 .. n + 1 /\ (n + 1) + 1 = Len(s) + 1
    BY <1>2
  <2>2. \A f \in Q : f \in Facts /\ Known(f, s, Len(s) + 1, R)
    BY DEF Fits
  <2>. QED  BY <1>5, <2>1, <2>2
<1>8. Fits(t, After(R, x), Q, d)
  BY <1>3, <1>6, <1>7 DEF Fits, n
<1>. QED  BY <1>4, <1>8 DEF x, t

------------------------------------------------------------------------------
(* The steps, and the functions that deploy *)

Own(r) == {f \in Facts : f.sort = "own" /\ f.role = r}
KindOf(r, k) == {f \in Facts : f.sort = "kind" /\ f.role = r /\ f.kind = k}
Mined(r) == {f \in Facts : f.sort = "mined" /\ f.role = r}
Stored(key, r) == {f \in Facts : f.sort = "stored" /\ f.role = r /\ f.key = key}
Present(rs) == {f \in Facts : f.sort = "present" /\ f.role \in rs}
OwnOf(rs) == {f \in Facts : f.sort = "own" /\ f.role \in rs}

Unwritten(R, key) == {f \in R : ~(f.sort = "stored" /\ f.key = key)}
Others(R, r) == {f \in R : f.role # r}
Created(R, kind, slug, r) ==
  Own(r) \cup KindOf(r, kind) \cup Unwritten(Others(R, r), <<kind, slug>>)

QuietOps == {"setDRE", "useDRE", "checkVerification", "requireParams", "defender", "encode",
             "approve", "proxyInit", "upgrade"}

LEMMA QuietStep ==
  ASSUME NEW x, x.op \in QuietOps, NEW R \in SUBSET Facts, NEW d
  PROVE  Fits(<<x>>, R, R, d)
<1>1. FitStep(x, d) /\ (\A f \in Facts : ~Needs(x, f) /\ ~Breaks(x, f))
  BY DEF QuietOps, FitStep, Needs, Breaks
<1>2. R \subseteq After(R, x)
  BY <1>1 DEF After
<1>. QED  BY <1>1, <1>2, OneStep, Weakened

LEMMA QuietSteps ==
  ASSUME NEW R \in SUBSET Facts, NEW d
  PROVE  /\ Fits(setDRE, R, R, d)
         /\ Fits(useDRE, R, R, d)
         /\ Fits(requireParams, R, R, d)
         /\ \A flag : Fits(checkVerification(flag), R, R, d)
         /\ \A p : Fits(getDefenderRelaySigner(p), R, R, d)
         /\ \A kind, nargs : Fits(encode(kind, nargs), R, R, d)
         /\ \A role : Fits(approve(role), R, R, d)
         /\ \A role, logic : Fits(proxyInit(role, logic), R, R, d)
         /\ \A role, logic : Fits(<<[op |-> "upgrade", role |-> role, logic |-> logic]>>, R, R, d)
<1>. USE DEF QuietOps
<1>1. Fits(setDRE, R, R, d) /\ Fits(useDRE, R, R, d) /\ Fits(requireParams, R, R, d)
  BY QuietStep DEF setDRE, useDRE, requireParams
<1>2. ASSUME NEW flag PROVE Fits(checkVerification(flag), R, R, d)
  <2>1. Fits(<<[op |-> "checkVerification"]>>, R, R, d)
    BY QuietStep
  <2>. QED  BY <2>1, OnlySteps DEF checkVerification
<1>3. ASSUME NEW p PROVE Fits(getDefenderRelaySigner(p), R, R, d)
  <2>1. Fits(<<[op |-> "defender"]>>, R, R, d)
    BY QuietStep
  <2>. QED  BY <2>1, OnlySteps DEF getDefenderRelaySigner
<1>4. ASSUME NEW kind, NEW nargs PROVE Fits(encode(kind, nargs), R, R, d)
  BY QuietStep DEF encode
<1>5. ASSUME NEW role PROVE Fits(approve(role), R, R, d)
  BY QuietStep DEF approve
<1>6. ASSUME NEW role, NEW logic PROVE Fits(proxyInit(role, logic), R, R, d)
  BY QuietStep DEF proxyInit
<1>7. ASSUME NEW role, NEW logic
      PROVE  Fits(<<[op |-> "upgrade", role |-> role, logic |-> logic]>>, R, R, d)
  BY QuietStep
<1>. QED  BY <1>1, <1>2, <1>3, <1>4, <1>5, <1>6, <1>7

LEMMA InstanceSteps ==
  ASSUME NEW R \in SUBSET Facts, NEW d, NEW role \in Roles, Own(role) \subseteq R
  PROVE  /\ Fits(wait(role), R, R \cup Mined(role), d)
         /\ Fits(verifyContract_(role), R, R, d)
         /\ \A key \in Keys : Fits(registerContractInJsonDb(key, role), R,
                                   Stored(key, role) \cup Unwritten(R, key), d)
<1>1. Fits(wait(role), R, R \cup Mined(role), d)
  <2>. DEFINE x == [op |-> "wait", role |-> role]
  <2>1. FitStep(x, d) /\ (\A f \in Facts : Needs(x, f) => f \in R)
    BY DEF FitStep, Needs, Own
  <2>2. R \cup Mined(role) \subseteq After(R, x)
    BY DEF After, Breaks, Gives, Mined
  <2>. HIDE DEF x
  <2>3. Fits(<<x>>, R, R \cup Mined(role), d)
    BY <2>1, <2>2, OneStep, Weakened
  <2>. QED  BY <2>3 DEF x, wait
<1>2. Fits(verifyContract_(role), R, R, d)
  <2>. DEFINE x == [op |-> "verify", role |-> role]
  <2>1. FitStep(x, d) /\ (\A f \in Facts : Needs(x, f) => f \in R)
    BY DEF FitStep, Needs, Own
  <2>2. R \subseteq After(R, x)
    BY DEF After, Breaks
  <2>. HIDE DEF x
  <2>3. Fits(<<x>>, R, R, d)
    BY <2>1, <2>2, OneStep, Weakened
  <2>. QED  BY <2>3 DEF x, verifyContract_
<1>3. ASSUME NEW key \in Keys
      PROVE  Fits(registerContractInJsonDb(key, role), R, Stored(key, role) \cup Unwritten(R, key), d)
  <2>. DEFINE x == [op |-> "register", key |-> key, role |-> role]
              Q == Stored(key, role) \cup Unwritten(R, key)
  <2>1. FitStep(x, d) /\ (\A f \in Facts : Needs(x, f) => f \in R)
    BY DEF FitStep, Needs, Own
  <2>2. Q \subseteq After(R, x)
    BY DEF After, Breaks, Gives, Stored, Unwritten
  <2>. HIDE DEF x, Q
  <2>3. Fits(<<x>>, R, Q, d)
    BY <2>1, <2>2, OneStep, Weakened
  <2>. QED  BY <2>3 DEF x, Q, registerContractInJsonDb
<1>. QED  BY <1>1, <1>2, <1>3

LEMMA OverwritingSteps ==
  ASSUME NEW R \in SUBSET Facts, NEW d, NEW role \in Roles
  PROVE  /\ \A key \in Keys : role \notin ImplRoles => Fits(lookup(key, role), R, Others(R, role), d)
         /\ Fits(given(role), R, Others(R, role), d)
<1>1. ASSUME NEW key \in Keys, role \notin ImplRoles
      PROVE  Fits(lookup(key, role), R, Others(R, role), d)
  <2>. DEFINE x == [op |-> "lookup", key |-> key, role |-> role]
  <2>1. FitStep(x, d) /\ (\A f \in Facts : ~Needs(x, f))
    BY <1>1 DEF FitStep, Needs
  <2>2. Others(R, role) \subseteq After(R, x)
    BY DEF After, Breaks, Others
  <2>. HIDE DEF x
  <2>3. Fits(<<x>>, R, Others(R, role), d)
    BY <2>1, <2>2, OneStep, Weakened
  <2>. QED  BY <2>3 DEF x, lookup
<1>2. Fits(given(role), R, Others(R, role), d)
  <2>. DEFINE x == [op |-> "given", role |-> role]
  <2>1. FitStep(x, d) /\ (\A f \in Facts : ~Needs(x, f))
    BY DEF FitStep, Needs
  <2>2. Others(R, role) \subseteq After(R, x)
    BY DEF After, Breaks, Others
  <2>. HIDE DEF x
  <2>3. Fits(<<x>>, R, Others(R, role), d)
    BY <2>1, <2>2, OneStep, Weakened
  <2>. QED  BY <2>3 DEF x, given
<1>. QED  BY <1>1, <1>2

LEMMA RunStep ==
  ASSUME NEW name, NEW p, NEW d, name \in TaskNames => p \in Flags /\ Signer(p) = d, NEW R
  PROVE  Fits(run(name, p), R, {}, d)
<1>. DEFINE x == [op |-> "run", task |-> name, flags |-> p]
<1>1. FitStep(x, d) /\ (\A f \in Facts : ~Needs(x, f))
  BY DEF FitStep, Needs
<1>. HIDE DEF x
<1>2. Fits(<<x>>, R, {}, d)
  BY <1>1, OneStep, Weakened
<1>. QED  BY <1>2 DEF x, run

LEMMA ContractDeployed ==
  ASSUME NEW R \in SUBSET Facts, NEW d, NEW role \in Roles, NEW kind, NEW slug,
         <<kind, slug>> \in Keys, NEW signer, role \in ImplRoles => signer = d
  PROVE  Fits(deployContract(kind, slug, signer, role), R, Created(R, kind, slug, role), d)
<1>. DEFINE x == [op |-> "send", kind |-> kind, from |-> signer, role |-> role]
            Q == Own(role) \cup KindOf(role, kind) \cup Others(R, role)
<1>1. FitStep(x, d) /\ (\A f \in Facts : ~Needs(x, f))
  BY DEF FitStep, Needs
<1>2. Q \subseteq After(R, x)
  BY DEF After, Breaks, Gives, Own, KindOf, Others
<1>3. Q \in SUBSET Facts /\ Own(role) \subseteq Q
  BY DEF Own, KindOf, Others
<1>4. Created(R, kind, slug, role)
        \subseteq Stored(<<kind, slug>>, role) \cup Unwritten(Q, <<kind, slug>>)
  BY DEF Created, Unwritten, Own, KindOf
<1>. HIDE DEF x, Q
<1>5. Fits(<<x>>, R, Q, d)
  BY <1>1, <1>2, OneStep, Weakened
<1>6. Fits(registerContractInJsonDb(<<kind, slug>>, role), Q, Created(R, kind, slug, role), d)
  BY <1>3, <1>4, InstanceSteps, Weakened
<1>7. Fits(<<x>> \o registerContractInJsonDb(<<kind, slug>>, role), R,
           Created(R, kind, slug, role), d)
  BY <1>5, <1>6, Sequenced
<1>. QED  BY <1>7 DEF x, deployContract

LEMMA CreatedFacts ==
  ASSUME NEW R \in SUBSET Facts, NEW role, NEW kind, NEW slug
  PROVE  /\ Created(R, kind, slug, role) \in SUBSET Facts
         /\ Own(role) \subseteq Created(R, kind, slug, role)
BY DEF Created, Own, KindOf, Unwritten, Others

\* Without and with the wait for the transaction
LEMMA DeployedAndVerified ==
  ASSUME NEW R \in SUBSET Facts, NEW d, NEW role \in Roles, NEW kind, NEW slug,
         <<kind, slug>> \in Keys, NEW signer, role \in ImplRoles => signer = d, NEW verify
  PROVE  /\ Fits(deployContract(kind, slug, signer, role) \o Only(verify, verifyContract_(role)),
                 R, Created(R, kind, slug, role), d)
         /\ Fits(deployContract(kind, slug, signer, role) \o wait(role)
                   \o Only(verify, verifyContract_(role)),
                 R, Created(R, kind, slug, role) \cup Mined(role), d)
<1>. DEFINE Q == Created(R, kind, slug, role)
<1>1. Fits(deployContract(kind, slug, signer, role), R, Q, d)
  BY ContractDeployed
<1>2. Q \in SUBSET Facts /\ Own(role) \subseteq Q
  BY CreatedFacts
<1>. HIDE DEF Q
<1>3. Fits(Only(verify, verifyContract_(role)), Q, Q, d)
  BY <1>2, InstanceSteps, OnlySteps
<1>4. Q \cup Mined(role) \in SUBSET Facts /\ Own(role) \subseteq Q \cup Mined(role)
  BY <1>2 DEF Mined
<1>5. Fits(Only(verify, verifyContract_(role)), Q \cup Mined(role), Q \cup Mined(role), d)
  BY <1>4, InstanceSteps, OnlySteps
<1>6. Fits(wait(role), Q, Q \cup Mined(role), d)
  BY <1>2, InstanceSteps
<1>7. Fits(deployContract(kind, slug, signer, role) \o wait(role), R, Q \cup Mined(role), d)
  BY <1>1, <1>6, Sequenced
<1>8. Fits(deployContract(kind, slug, signer, role) \o Only(verify, verifyContract_(role)), R, Q, d)
  BY <1>1, <1>3, Sequenced
<1>9. Fits((deployContract(kind, slug, signer, role) \o wait(role))
             \o Only(verify, verifyContract_(role)), R, Q \cup Mined(role), d)
  BY <1>5, <1>7, Sequenced
<1>. QED  BY <1>8, <1>9 DEF Q

------------------------------------------------------------------------------
(* The scripts.  Most need nothing and promise nothing; the deployments of *)
(* Deployed promise what FinishedMeansLive asks for.                       *)

Result(name, kind, r) ==
  Own(r) \cup Mined(r) \cup KindOf(r, kind) \cup Stored(<<name, "">>, r)

Goal(t) ==
  CASE t = "deploy-StakedREXV3" ->
         Result("StakedREXV3", "InitializableAdminUpgradeabilityProxy", "proxy")
         \cup Result("Staked REX", "StakedREXV3", "impl")
    [] t = "deploy-RollexStakingHelper" ->
         Result("RollexStakingHelper", "RollexStakingHelper", "instance")
    [] t = "deploy-StakeUIHelper" -> Result("StakeUIHelper", "StakeUIHelper", "instance")
    [] t = "deploy-StakedTokenDataProvider" ->
         Result("StakedTokenDataProvider", "StakedTokenDataProvider", "instance")
    [] OTHER -> {}

\* Steps that leave R as they find it
LEMMA Chain ==
  ASSUME NEW P, NEW R, NEW d, NEW a, Fits(a, P, R, d), NEW b, Fits(b, R, R, d), NEW c, Fits(c, R, R, d)
  PROVE  Fits(a \o b \o c, P, R, d)
<1>1. Fits(a \o b, P, R, d)
  BY Sequenced
<1>. QED  BY <1>1, Sequenced

LEMMA LongChain ==
  ASSUME NEW P, NEW R, NEW d, NEW a, Fits(a, P, R, d), NEW b, Fits(b, R, R, d), NEW c, Fits(c, R, R, d),
         NEW e, Fits(e, R, R, d), NEW f, Fits(f, R, R, d), NEW g, Fits(g, R, R, d)
  PROVE  Fits(a \o b \o c \o e \o f \o g, P, R, d)
<1>1. Fits(a \o b \o c, P, R, d)
  BY Chain
<1>2. Fits((a \o b \o c) \o e \o f, P, R, d)
  BY <1>1, Chain
<1>. QED  BY <1>2, Sequenced

\* Every deployment keeps what is known of other instances, and of its own.
LEMMA DeploymentsKeepOwn ==
  ASSUME NEW rs \in SUBSET Roles, NEW d, NEW role \in Roles \ ImplRoles
  PROVE  LET R == OwnOf(rs)
             Q == OwnOf(rs \cup {role})
         IN  /\ Fits(deployMintableErc20(role), R, Q, d)
             /\ Fits(deployMockTransferHook(role), R, Q, d)
             /\ \A slug \in Slugs : Fits(deployATokenMock(slug, role), R, Q, d)
             /\ \A v : Fits(deployStakedREX(v, role), R, Q, d)
             /\ \A v : Fits(deployStakedREXV3(v, role), R, Q, d)
             /\ \A v : Fits(deployRollexIncentivesController(v, role), R, Q, d)
             /\ \A v : Fits(deployInitializableAdminUpgradeabilityProxy(v, "owner", role), R, Q, d)
<1>. DEFINE R == OwnOf(rs)
            Q == OwnOf(rs \cup {role})
<1>1. R \in SUBSET Facts
  BY DEF OwnOf
<1>2. \A kind, slug : Q \subseteq Created(R, kind, slug, role)
  BY DEF Created, OwnOf, Own, Unwritten, Others
<1>3. /\ \A kind \in Kinds : <<kind, "">> \in Keys
      /\ \A slug \in Slugs : <<"ATokenMock", slug>> \in Keys
  BY DEF Keys
<1>. HIDE DEF R, Q
<1>4. ASSUME NEW kind, NEW slug, <<kind, slug>> \in Keys
      PROVE  /\ Fits(deployContract(kind, slug, "owner", role), R, Q, d)
             /\ \A v : Fits(deployContract(kind, slug, "owner", role) \o Only(v, verifyContract_(role)),
                            R, Q, d)
             /\ \A v : Fits(deployContract(kind, slug, "owner", role) \o wait(role)
                              \o Only(v, verifyContract_(role)), R, Q, d)
  <2>1. Q \subseteq Created(R, kind, slug, role) /\ R \subseteq R
    BY <1>2
  <2>2. Fits(deployContract(kind, slug, "owner", role), R, Q, d)
    <3>1. Fits(deployContract(kind, slug, "owner", role), R, Created(R, kind, slug, role), d)
      BY <1>1, <1>4, ContractDeployed
    <3>. QED  BY <2>1, <3>1, Weakened
  <2>3. ASSUME NEW v
        PROVE  /\ Fits(deployContract(kind, slug, "owner", role) \o Only(v, verifyContract_(role)),
                       R, Q, d)
               /\ Fits(deployContract(kind, slug, "owner", role) \o wait(role)
                         \o Only(v, verifyContract_(role)), R, Q, d)
    <3>1. /\ Fits(deployContract(kind, slug, "owner", role) \o Only(v, verifyContract_(role)),
                  R, Created(R, kind, slug, role), d)
          /\ Fits(deployContract(kind, slug, "owner", role) \o wait(role)
                    \o Only(v, verifyContract_(role)), R, Created(R, kind, slug, role) \cup Mined(role), d)
      BY <1>1, <1>4, DeployedAndVerified
    <3>. QED  BY <2>1, <3>1, Weakened
  <2>. QED  BY <2>2, <2>3
<1>5. {"StakedREX", "StakedREXV3", "RollexIncentivesController", "MintableErc20", "MockTransferHook",
       "InitializableAdminUpgradeabilityProxy"} \subseteq Kinds
  BY DEF Kinds
<1>6. /\ Fits(deployMintableErc20(role), R, Q, d)
      /\ Fits(deployMockTransferHook(role), R, Q, d)
      /\ \A slug \in Slugs : Fits(deployATokenMock(slug, role), R, Q, d)
  BY <1>3, <1>4, <1>5 DEF deployMintableErc20, deployMockTransferHook, deployATokenMock
<1>7. /\ \A v : Fits(deployStakedREX(v, role), R, Q, d)
      /\ \A v : Fits(deployStakedREXV3(v, role), R, Q, d)
  BY <1>3, <1>4, <1>5 DEF deployStakedREX, deployStakedREXV3
<1>8. /\ \A v : Fits(deployRollexIncentivesController(v, role), R, Q, d)
      /\ \A v : Fits(deployInitializableAdminUpgradeabilityProxy(v, "owner", role), R, Q, d)
  BY <1>3, <1>4, <1>5
     DEF deployRollexIncentivesController, deployInitializableAdminUpgradeabilityProxy
<1>. QED  BY <1>6, <1>7, <1>8 DEF R, Q

LEMMA OwnedSteps ==
  ASSUME NEW rs \in SUBSET Roles, NEW d, NEW key \in Keys
  PROVE  /\ \A role \in rs : Fits(insertContractAddressInDb(key, role), OwnOf(rs), OwnOf(rs), d)
         /\ \A role \in Roles \ (ImplRoles \cup rs) : Fits(lookup(key, role), OwnOf(rs), OwnOf(rs), d)
<1>1. OwnOf(rs) \in SUBSET Facts /\ \A role \in rs : Own(role) \subseteq OwnOf(rs)
  BY DEF OwnOf, Own
<1>2. ASSUME NEW role \in rs
      PROVE  Fits(insertContractAddressInDb(key, role), OwnOf(rs), OwnOf(rs), d)
  <2>1. OwnOf(rs) \subseteq Stored(key, role) \cup Unwritten(OwnOf(rs), key)
    BY DEF OwnOf, Unwritten
  <2>2. Fits(registerContractInJsonDb(key, role), OwnOf(rs),
             Stored(key, role) \cup Unwritten(OwnOf(rs), key), d)
    BY <1>1, <1>2, InstanceSteps
  <2>. QED  BY <2>1, <2>2, Weakened DEF insertContractAddressInDb
<1>3. ASSUME NEW role \in Roles \ (ImplRoles \cup rs)
      PROVE  Fits(lookup(key, role), OwnOf(rs), OwnOf(rs), d)
  <2>1. OwnOf(rs) \subseteq Others(OwnOf(rs), role)
    BY <1>3 DEF OwnOf, Others
  <2>2. Fits(lookup(key, role), OwnOf(rs), Others(OwnOf(rs), role), d)
    BY <1>1, <1>3, OverwritingSteps
  <2>. QED  BY <2>1, <2>2, Weakened
<1>. QED  BY <1>2, <1>3

LEMMA V1Fits ==
  ASSUME NEW d
  PROVE  Fits(testDeployrexStakeV1, OwnOf({}), OwnOf({"icProxy", "stakeProxy"}), d)
<1>. DEFINE P == "InitializableAdminUpgradeabilityProxy"
            rs == {"icProxy", "stakeProxy"}
            R == OwnOf(rs)
            proxies2 == deployInitializableAdminUpgradeabilityProxy(FALSE, "owner", "icProxy")
                        \o deployInitializableAdminUpgradeabilityProxy(FALSE, "owner", "stakeProxy")
<1>1. rs \in SUBSET Roles /\ rs \cap ImplRoles = {} /\ {"icProxy"} \in SUBSET Roles
      /\ {"icImpl", "stakeImpl", "hook"} \subseteq Roles \ ImplRoles
  BY DEF Roles, TestRoles, ImplRoles
<1>2. <<"StakedREX", "">> \in Keys /\ <<"RollexIncentivesController", "">> \in Keys
  BY DEF Keys, Kinds
<1>3. Fits(proxies2, OwnOf({}), R, d)
  <2>1. Fits(deployInitializableAdminUpgradeabilityProxy(FALSE, "owner", "icProxy"),
             OwnOf({}), OwnOf({} \cup {"icProxy"}), d)
    BY <1>1, DeploymentsKeepOwn
  <2>2. Fits(deployInitializableAdminUpgradeabilityProxy(FALSE, "owner", "stakeProxy"),
             OwnOf({"icProxy"}), OwnOf({"icProxy"} \cup {"stakeProxy"}), d)
    BY <1>1, DeploymentsKeepOwn
  <2>3. {} \cup {"icProxy"} = {"icProxy"} /\ {"icProxy"} \cup {"stakeProxy"} = rs
    OBVIOUS
  <2>. QED  BY <2>1, <2>2, <2>3, Sequenced
<1>4. /\ R \in SUBSET Facts
      /\ \A role : OwnOf(rs) \subseteq OwnOf(rs \cup {role})
  BY DEF OwnOf
<1>. HIDE DEF proxies2
<1>5. /\ Fits(deployRollexIncentivesController(FALSE, "icImpl"), R, R, d)
      /\ Fits(deployStakedREX(FALSE, "stakeImpl"), R, R, d)
      /\ Fits(deployMockTransferHook("hook"), R, R, d)
  <2>1. Fits(deployRollexIncentivesController(FALSE, "icImpl"), R, OwnOf(rs \cup {"icImpl"}), d)
    BY <1>1, DeploymentsKeepOwn
  <2>2. Fits(deployStakedREX(FALSE, "stakeImpl"), R, OwnOf(rs \cup {"stakeImpl"}), d)
    BY <1>1, DeploymentsKeepOwn
  <2>3. Fits(deployMockTransferHook("hook"), R, OwnOf(rs \cup {"hook"}), d)
    BY <1>1, DeploymentsKeepOwn
  <2>4. ASSUME NEW s, NEW role, Fits(s, R, OwnOf(rs \cup {role}), d)
        PROVE  Fits(s, R, R, d)
    <3>1. R \subseteq OwnOf(rs \cup {role}) /\ R \subseteq R
      BY <1>4
    <3>. QED  BY <2>4, <3>1, Weakened
  <2>. QED  BY <2>1, <2>2, <2>3, <2>4
<1>6. /\ Fits(encode("StakedREX", 4), R, R, d)
      /\ Fits(proxyInit("stakeProxy", "stakeImpl"), R, R, d)
      /\ Fits(approve("stakeProxy"), R, R, d)
      /\ Fits(encode("RollexIncentivesController", 0), R, R, d)
      /\ Fits(proxyInit("icProxy", "icImpl"), R, R, d)
      /\ Fits(approve("icProxy"), R, R, d)
  BY <1>4, QuietSteps
<1>7. /\ Fits(insertContractAddressInDb(<<"StakedREX", "">>, "stakeProxy"), R, R, d)
      /\ Fits(insertContractAddressInDb(<<"RollexIncentivesController", "">>, "icProxy"), R, R, d)
  BY <1>1, <1>2, OwnedSteps
<1>. HIDE DEF R
<1>. DEFINE half == proxies2 \o deployRollexIncentivesController(FALSE, "icImpl")
                    \o deployStakedREX(FALSE, "stakeImpl")
                    \o deployMockTransferHook("hook")
                    \o encode("StakedREX", 4) \o proxyInit("stakeProxy", "stakeImpl")
<1>8. Fits(half, OwnOf({}), R, d)
  BY <1>3, <1>5, <1>6, LongChain
<1>. HIDE DEF half
<1>. DEFINE most == half \o approve("stakeProxy")
                    \o insertContractAddressInDb(<<"StakedREX", "">>, "stakeProxy")
                    \o encode("RollexIncentivesController", 0) \o proxyInit("icProxy", "icImpl")
                    \o approve("icProxy")
<1>9. Fits(most, OwnOf({}), R, d)
  BY <1>6, <1>7, <1>8, LongChain
<1>. HIDE DEF most
<1>10. Fits(most \o insertContractAddressInDb(<<"RollexIncentivesController", "">>, "icProxy"),
            OwnOf({}), R, d)
  BY <1>7, <1>9, Sequenced
<1>. QED  BY <1>10 DEF most, half, proxies2, R, testDeployrexStakeV1

LEMMA TestSetupFits ==
  ASSUME NEW d
  PROVE  Fits(TestSetup, {}, {}, d)
<1>. DEFINE R == OwnOf({"icProxy", "stakeProxy"})
<1>1. OwnOf({}) = {} /\ R \in SUBSET Facts /\ {} \in SUBSET Facts
  BY DEF OwnOf
<1>2. Fits(testDeployrexStakeV1, {}, R, d) /\ Fits(testDeployrexStakeV1, {}, {}, d)
  <2>1. Fits(testDeployrexStakeV1, OwnOf({}), R, d)
    BY V1Fits
  <2>2. {} \subseteq R /\ {} \subseteq {}
    OBVIOUS
  <2>. HIDE DEF R
  <2>. QED  BY <1>1, <2>1, <2>2, Weakened
<1>3. Fits(testDeployrexStakeV2, {}, {}, d)
  <2>1. /\ {"icProxy", "stakeProxy"} \in SUBSET Roles /\ "v3Impl" \in Roles \ ImplRoles
        /\ <<"StakedREXV3", "">> \in Keys
    BY DEF Roles, TestRoles, ImplRoles, Keys, Kinds
  <2>2. Fits(deployStakedREXV3(FALSE, "v3Impl"), R, R, d)
    <3>1. Fits(deployStakedREXV3(FALSE, "v3Impl"), R, OwnOf({"icProxy", "stakeProxy"} \cup {"v3Impl"}), d)
      BY <2>1, DeploymentsKeepOwn
    <3>2. R \subseteq OwnOf({"icProxy", "stakeProxy"} \cup {"v3Impl"}) /\ R \subseteq R
      BY DEF OwnOf
    <3>. QED  BY <3>1, <3>2, Weakened
  <2>3. /\ Fits(encode("StakedREXV3", 0), R, R, d)
        /\ Fits(<<[op |-> "upgrade", role |-> "stakeProxy", logic |-> "v3Impl"]>>, R, R, d)
    BY <1>1, QuietSteps
  <2>4. Fits(insertContractAddressInDb(<<"StakedREXV3", "">>, "stakeProxy"), R, R, d)
    BY <2>1, OwnedSteps
  <2>. HIDE DEF R
  <2>5. Fits(testDeployrexStakeV1 \o deployStakedREXV3(FALSE, "v3Impl") \o encode("StakedREXV3", 0),
             {}, R, d)
    BY <1>2, <2>2, <2>3, Chain
  <2>6. Fits(testDeployrexStakeV2, {}, R, d)
    BY <2>3, <2>4, <2>5, Chain DEF testDeployrexStakeV2
  <2>7. {} \subseteq R /\ {} \subseteq {}
    OBVIOUS
  <2>. QED  BY <2>6, <2>7, Weakened
<1>. HIDE DEF R
<1>4. \A role \in Roles \ ImplRoles :
        /\ Fits(deployMintableErc20(role), {}, {}, d)
        /\ \A slug \in Slugs : Fits(deployATokenMock(slug, role), {}, {}, d)
  <2>1. \A role : {} \subseteq OwnOf({} \cup {role})
    OBVIOUS
  <2>2. ASSUME NEW role \in Roles \ ImplRoles
        PROVE  /\ Fits(deployMintableErc20(role), {}, OwnOf({} \cup {role}), d)
               /\ \A slug \in Slugs : Fits(deployATokenMock(slug, role), {}, OwnOf({} \cup {role}), d)
    BY <1>1, DeploymentsKeepOwn
  <2>3. ASSUME NEW s, NEW role, Fits(s, {}, OwnOf({} \cup {role}), d)
        PROVE  Fits(s, {}, {}, d)
    BY <2>1, <2>3, Weakened
  <2>. QED  BY <2>2, <2>3
<1>5. Fits(initializeMakeSuite, {}, {}, d)
  <2>1. \A kind, slug : \A role \in Roles \ ImplRoles :
           <<kind, slug>> \in Keys => Fits(getContractFactory(kind, slug, role), {}, {}, d)
    BY <1>1, OwnedSteps DEF getContractFactory
  <2>2. {"testEnv.StakedREX", "testEnv.StakedREXV3", "testEnv.rollexIncentivesController",
         "testEnv.rexToken", "testEnv.aDaiMock", "testEnv.aWethMock"} \subseteq Roles \ ImplRoles
    BY DEF Roles, TestRoles, ImplRoles
  <2>3. /\ <<"StakedREX", "">> \in Keys /\ <<"StakedREXV3", "">> \in Keys
        /\ <<"RollexIncentivesController", "">> \in Keys /\ <<"MintableErc20", "">> \in Keys
        /\ <<"ATokenMock", "aDai">> \in Keys /\ <<"ATokenMock", "aWeth">> \in Keys
    BY DEF Keys, Kinds, Slugs
  <2>4. /\ Fits(getContractFactory("StakedREX", "", "testEnv.StakedREX"), {}, {}, d)
        /\ Fits(getContractFactory("StakedREXV3", "", "testEnv.StakedREXV3"), {}, {}, d)
        /\ Fits(getContractFactory("RollexIncentivesController", "",
                                   "testEnv.rollexIncentivesController"), {}, {}, d)
        /\ Fits(getContractFactory("MintableErc20", "", "testEnv.rexToken"), {}, {}, d)
        /\ Fits(getContractFactory("ATokenMock", "aDai", "testEnv.aDaiMock"), {}, {}, d)
        /\ Fits(getContractFactory("ATokenMock", "aWeth", "testEnv.aWethMock"), {}, {}, d)
    BY <2>1, <2>2, <2>3
  <2>. QED  BY <2>4, LongChain DEF initializeMakeSuite
<1>6. /\ "rexToken" \in Roles \ ImplRoles /\ "aDai" \in Roles \ ImplRoles
      /\ "aWeth" \in Roles \ ImplRoles /\ "aDai" \in Slugs /\ "aWeth" \in Slugs
  BY DEF Roles, TestRoles, ImplRoles, Slugs
<1>7. /\ Fits(setDRE, {}, {}, d) /\ Fits(deployMintableErc20("rexToken"), {}, {}, d)
      /\ Fits(deployATokenMock("aDai", "aDai"), {}, {}, d)
      /\ Fits(deployATokenMock("aWeth", "aWeth"), {}, {}, d)
  BY <1>1, <1>4, <1>6, QuietSteps
<1>8. Fits(setDRE \o deployMintableErc20("rexToken") \o testDeployrexStakeV2 \o testDeployrexStakeV1
           \o deployATokenMock("aDai", "aDai") \o deployATokenMock("aWeth", "aWeth"), {}, {}, d)
  BY <1>2, <1>3, <1>7, LongChain
<1>. QED  BY <1>5, <1>8, Sequenced DEF TestSetup

LEMMA DeployStakedREXV3Fits ==
  ASSUME NEW p, NEW d
  PROVE  Fits(DeployStakedREXV3Task(p), {}, Goal("deploy-StakedREXV3"), d)
<1>. DEFINE V3 == "StakedREXV3"
            IAUP == "InitializableAdminUpgradeabilityProxy"
            R1 == Created({}, V3, "", "impl")
            R2 == R1 \cup Mined("impl")
            R3 == Stored(<<"Staked REX", "">>, "impl") \cup Unwritten(R2, <<"Staked REX", "">>)
            R4 == Created(R3, IAUP, "", "proxy") \cup Mined("proxy")
            R5 == Stored(<<V3, "">>, "proxy") \cup Unwritten(R4, <<V3, "">>)
<1>1. /\ {"impl", "proxy"} \subseteq Roles /\ "impl" \notin ImplRoles /\ "proxy" \notin ImplRoles
      /\ <<V3, "">> \in Keys /\ <<IAUP, "">> \in Keys /\ <<"Staked REX", "">> \in Keys
  BY DEF Roles, ImplRoles, Keys, Kinds
<1>2. /\ R1 \in SUBSET Facts /\ R2 \in SUBSET Facts /\ R3 \in SUBSET Facts /\ R4 \in SUBSET Facts
      /\ Own("impl") \subseteq R1 /\ Own("impl") \subseteq R2 /\ Own("proxy") \subseteq R4
  BY CreatedFacts DEF Mined, Stored, Unwritten
<1>3. Goal("deploy-StakedREXV3") \subseteq R5
  <2>. DEFINE impl == Result("Staked REX", V3, "impl")
  <2>1. impl \subseteq R3
    BY DEF Result, Created, Own, KindOf, Mined, Stored, Unwritten
  <2>2. \A f \in impl : f.role = "impl" /\ (f.sort = "stored" => f.key = <<"Staked REX", "">>)
    BY DEF Result, Own, KindOf, Mined, Stored
  <2>0. /\ <<"Staked REX", "">> # <<V3, "">> /\ <<"Staked REX", "">> # <<IAUP, "">>
        /\ "impl" # "proxy"
    <3>1. <<"Staked REX", "">>[1] # <<V3, "">>[1] /\ <<"Staked REX", "">>[1] # <<IAUP, "">>[1]
      OBVIOUS
    <3>. QED  BY <3>1
  <2>3. Result(V3, IAUP, "proxy") \subseteq R5
    BY DEF Result, Created, Own, KindOf, Mined, Stored, Unwritten
  <2>4. Goal("deploy-StakedREXV3") = Result(V3, IAUP, "proxy") \cup impl
    BY DEF Goal
  <2>. HIDE DEF impl, R3
  <2>5. impl \subseteq Unwritten(Others(R3, "proxy"), <<IAUP, "">>)
    BY <2>0, <2>1, <2>2 DEF Unwritten, Others
  <2>6. impl \subseteq R4
    BY <2>5 DEF Created
  <2>. HIDE DEF R4
  <2>7. impl \subseteq R5
    BY <2>0, <2>2, <2>6 DEF Unwritten
  <2>. QED  BY <2>3, <2>4, <2>7
<1>. HIDE DEF R1, R2, R3, R4, R5
<1>4. Fits(setDRE \o checkVerification(p.verify), {}, {}, d)
  BY QuietSteps, Sequenced
<1>5. Fits(deployStakedREXV3(TRUE, "impl"), {}, R1, d)
  BY <1>1, DeployedAndVerified DEF deployStakedREXV3, R1
<1>6. Fits(wait("impl"), R1, R2, d)
  BY <1>1, <1>2, InstanceSteps DEF R2
<1>7. Fits(registerContractInJsonDb(<<"Staked REX", "">>, "impl"), R2, R3, d)
  BY <1>1, <1>2, InstanceSteps DEF R3
<1>8. Fits(deployInitializableAdminUpgradeabilityProxy(p.verify, "owner", "proxy"), R3, R4, d)
  BY <1>1, <1>2, DeployedAndVerified DEF deployInitializableAdminUpgradeabilityProxy, R4
<1>9. Fits(registerContractInJsonDb(<<V3, "">>, "proxy"), R4, R5, d)
  BY <1>1, <1>2, InstanceSteps DEF R5
<1>10. Fits(setDRE \o checkVerification(p.verify) \o deployStakedREXV3(TRUE, "impl"), {}, R1, d)
  BY <1>4, <1>5, Sequenced
<1>11. Fits(setDRE \o checkVerification(p.verify) \o deployStakedREXV3(TRUE, "impl") \o wait("impl"),
            {}, R2, d)
  BY <1>6, <1>10, Sequenced
<1>12. Fits(setDRE \o checkVerification(p.verify) \o deployStakedREXV3(TRUE, "impl") \o wait("impl")
              \o registerContractInJsonDb(<<"Staked REX", "">>, "impl"), {}, R3, d)
  BY <1>7, <1>11, Sequenced
<1>13. Fits(setDRE \o checkVerification(p.verify) \o deployStakedREXV3(TRUE, "impl") \o wait("impl")
              \o registerContractInJsonDb(<<"Staked REX", "">>, "impl")
              \o deployInitializableAdminUpgradeabilityProxy(p.verify, "owner", "proxy"), {}, R4, d)
  BY <1>8, <1>12, Sequenced
<1>14. Fits(DeployStakedREXV3Task(p), {}, R5, d)
  BY <1>9, <1>13, Sequenced DEF DeployStakedREXV3Task
<1>. QED  BY <1>3, <1>14, Weakened

\* The three deployments of one contract end alike.
LEMMA InstanceDeployed ==
  ASSUME NEW before, NEW kind \in Kinds, NEW verify, NEW d, Fits(before, {}, {}, d)
  PROVE  Fits(before \o (deployContract(kind, "", "owner", "instance")
                           \o Only(verify, verifyContract_("instance")))
                \o wait("instance") \o registerContractInJsonDb(<<kind, "">>, "instance"),
              {}, Result(kind, kind, "instance"), d)
<1>. DEFINE R1 == Created({}, kind, "", "instance")
            R2 == R1 \cup Mined("instance")
            R3 == Stored(<<kind, "">>, "instance") \cup Unwritten(R2, <<kind, "">>)
            deployment == deployContract(kind, "", "owner", "instance")
                            \o Only(verify, verifyContract_("instance"))
<1>1. "instance" \in Roles /\ "instance" \notin ImplRoles /\ <<kind, "">> \in Keys
  BY DEF Roles, ImplRoles, Keys
<1>2. /\ R1 \in SUBSET Facts /\ R2 \in SUBSET Facts
      /\ Own("instance") \subseteq R1 /\ Own("instance") \subseteq R2
  BY CreatedFacts DEF Mined
<1>3. Result(kind, kind, "instance") \subseteq R3
  BY DEF Result, Created, Own, KindOf, Mined, Stored, Unwritten, Others
<1>4. Fits(deployment, {}, R1, d)
  BY <1>1, DeployedAndVerified
<1>. HIDE DEF R1, R2, R3, deployment
<1>5. Fits(wait("instance"), R1, R2, d)
  BY <1>1, <1>2, InstanceSteps DEF R2
<1>6. Fits(registerContractInJsonDb(<<kind, "">>, "instance"), R2, R3, d)
  BY <1>1, <1>2, InstanceSteps DEF R3
<1>7. Fits(before \o deployment, {}, R1, d)
  BY <1>4, Sequenced
<1>8. Fits(before \o deployment \o wait("instance"), {}, R2, d)
  BY <1>5, <1>7, Sequenced
<1>9. Fits(before \o deployment \o wait("instance")
             \o registerContractInJsonDb(<<kind, "">>, "instance"), {}, R3, d)
  BY <1>6, <1>8, Sequenced
<1>10. ASSUME NEW s, Fits(s, {}, R3, d)
       PROVE  Fits(s, {}, Result(kind, kind, "instance"), d)
  BY <1>3, <1>10, Weakened
<1>. QED  BY <1>9, <1>10 DEF deployment

LEMMA OneContractTasksFit ==
  ASSUME NEW p, NEW d
  PROVE  /\ Fits(DeployRollexStakingHelperTask(p), {}, Goal("deploy-RollexStakingHelper"), d)
         /\ Fits(DeployStakeUIHelperTask(p), {}, Goal("deploy-StakeUIHelper"), d)
         /\ Fits(DeployStakedTokenDataProviderTask(p), {}, Goal("deploy-StakedTokenDataProvider"), d)
<1>1. /\ Goal("deploy-RollexStakingHelper") = Result("RollexStakingHelper", "RollexStakingHelper", "instance")
      /\ Goal("deploy-StakeUIHelper") = Result("StakeUIHelper", "StakeUIHelper", "instance")
      /\ Goal("deploy-StakedTokenDataProvider")
           = Result("StakedTokenDataProvider", "StakedTokenDataProvider", "instance")
  BY DEF Goal
<1>2. /\ Fits(setDRE, {}, {}, d) /\ Fits(checkVerification(p.verify), {}, {}, d)
      /\ Fits(requireParams, {}, {}, d)
  BY QuietSteps
<1>3. /\ Fits(setDRE \o checkVerification(p.verify), {}, {}, d)
      /\ Fits(setDRE \o checkVerification(p.verify) \o requireParams, {}, {}, d)
  BY <1>2, Sequenced, Chain
<1>4. {"RollexStakingHelper", "StakeUIHelper", "StakedTokenDataProvider"} \subseteq Kinds
  BY DEF Kinds
<1>5. Fits(DeployRollexStakingHelperTask(p), {}, Goal("deploy-RollexStakingHelper"), d)
  BY <1>1, <1>3, <1>4, InstanceDeployed DEF DeployRollexStakingHelperTask, deployRollexStakingHelper
<1>6. Fits(DeployStakeUIHelperTask(p), {}, Goal("deploy-StakeUIHelper"), d)
  BY <1>1, <1>3, <1>4, InstanceDeployed DEF DeployStakeUIHelperTask, deployStakeUIHelper
<1>7. Fits(DeployStakedTokenDataProviderTask(p), {}, Goal("deploy-StakedTokenDataProvider"), d)
  BY <1>1, <1>3, <1>4, InstanceDeployed
     DEF DeployStakedTokenDataProviderTask, deployStakedTokenDataProvider
<1>. QED  BY <1>5, <1>6, <1>7

LEMMA FlagsSigner ==
  ASSUME NEW p \in Flags
  PROVE  /\ [NoFlags EXCEPT !.defender = p.defender] \in Flags
         /\ Signer([NoFlags EXCEPT !.defender = p.defender]) = Signer(p)
         /\ NoFlags \in Flags
BY DEF Flags, NoFlags, Signer

LEMMA ImplDeploymentFits ==
  ASSUME NEW p, NEW d, Signer(p) = d
  PROVE  Fits(DeployStakedRexRev3Task(p), {}, {}, d)
<1>1. Fits(setDRE, {}, {}, d) /\ Fits(getDefenderRelaySigner(p), {}, {}, d)
  BY QuietSteps
<1>2. "stkREXImpl" \in Roles /\ <<"StakedTokenV3Rev3", "">> \in Keys
  BY DEF Roles, Keys, Kinds
<1>3. Fits(deployStakedTokenV3Revision3(TRUE, Signer(p), "stkREXImpl"), {}, {}, d)
  <2>1. Fits(deployStakedTokenV3Revision3(TRUE, Signer(p), "stkREXImpl"), {},
             Created({}, "StakedTokenV3Rev3", "", "stkREXImpl"), d)
    BY <1>2, DeployedAndVerified DEF deployStakedTokenV3Revision3
  <2>2. ASSUME NEW s, NEW Q, Fits(s, {}, Q, d)
        PROVE  Fits(s, {}, {}, d)
    BY <2>2, Weakened
  <2>. QED  BY <2>1, <2>2
<1>. QED  BY <1>1, <1>3, Chain DEF DeployStakedRexRev3Task

\* The proposal names what requireImpls has seen.
LEMMA CreateFits ==
  ASSUME NEW d, NEW rs \in SUBSET ImplRoles
  PROVE  /\ Fits(<<[op |-> "requireImpls", impls |-> rs]>>, {}, Present(rs), d)
         /\ Fits(<<[op |-> "create", from |-> d, impls |-> rs]>>, Present(rs), {}, d)
<1>1. Fits(<<[op |-> "requireImpls", impls |-> rs]>>, {}, Present(rs), d)
  <2>. DEFINE x == [op |-> "requireImpls", impls |-> rs]
  <2>1. FitStep(x, d) /\ (\A f \in Facts : ~Needs(x, f))
    BY DEF FitStep, Needs
  <2>2. Present(rs) \subseteq After({}, x)
    BY DEF After, Gives, Present
  <2>. HIDE DEF x
  <2>3. Fits(<<x>>, {}, After({}, x), d)
    BY <2>1, OneStep
  <2>4. Fits(<<x>>, {}, Present(rs), d)
    BY <2>2, <2>3, Weakened
  <2>. QED  BY <2>4 DEF x
<1>2. Fits(<<[op |-> "create", from |-> d, impls |-> rs]>>, Present(rs), {}, d)
  <2>. DEFINE x == [op |-> "create", from |-> d, impls |-> rs]
  <2>1. FitStep(x, d) /\ (\A f \in Facts : Needs(x, f) => f \in Present(rs))
    BY DEF FitStep, Needs, Present
  <2>. HIDE DEF x
  <2>2. Fits(<<x>>, Present(rs), After(Present(rs), x), d)
    BY <2>1, OneStep
  <2>3. Fits(<<x>>, Present(rs), {}, d)
    BY <2>2, Weakened
  <2>. QED  BY <2>3 DEF x
<1>. QED  BY <1>1, <1>2

LEMMA ProposeExtensionFits ==
  ASSUME NEW p, NEW d, Signer(p) = d
  PROVE  Fits(ProposeExtensionTask(p), {}, {}, d)
<1>. DEFINE require == <<[op |-> "requireImpls", impls |-> ImplRoles]>>
            create == <<[op |-> "create", from |-> d, impls |-> ImplRoles]>>
            g1 == Only(p.stkREXimpl, given("stkREXImpl"))
            g2 == Only(p.stkbptimpl, given("stkBptImpl"))
            R == Present(ImplRoles)
<1>1. ImplRoles \subseteq Roles /\ R \in SUBSET Facts
  BY DEF ImplRoles, Roles, Present
<1>2. Fits(g1, {}, {}, d) /\ Fits(g2, {}, {}, d)
  <2>1. /\ Others({}, "stkREXImpl") = {} /\ Others({}, "stkBptImpl") = {}
        /\ "stkREXImpl" \in Roles /\ "stkBptImpl" \in Roles
    BY <1>1 DEF Others, ImplRoles
  <2>2. Fits(given("stkREXImpl"), {}, {}, d) /\ Fits(given("stkBptImpl"), {}, {}, d)
    BY <2>1, OverwritingSteps
  <2>. QED  BY <2>2, OnlySteps
<1>3. /\ Fits(setDRE, {}, {}, d) /\ Fits(getDefenderRelaySigner(p), {}, {}, d)
      /\ Fits(encode("StakedTokenV3Rev3", 0), R, R, d)
      /\ Fits(encode("StakedTokenBptRev2", 3), R, R, d)
  BY <1>1, QuietSteps
<1>4. Fits(require, {}, R, d) /\ Fits(create, R, {}, d)
  BY CreateFits
<1>5. ProposeExtensionTask(p)
        = g1 \o g2 \o setDRE \o getDefenderRelaySigner(p) \o require
             \o encode("StakedTokenV3Rev3", 0) \o encode("StakedTokenBptRev2", 3) \o create
  BY DEF ProposeExtensionTask, ImplRoles
<1>. HIDE DEF require, create, g1, g2, R
<1>6. Fits(g1 \o g2 \o setDRE, {}, {}, d)
  BY <1>2, <1>3, Chain
<1>7. Fits(g1 \o g2 \o setDRE \o getDefenderRelaySigner(p), {}, {}, d)
  BY <1>3, <1>6, Sequenced
<1>8. Fits(g1 \o g2 \o setDRE \o getDefenderRelaySigner(p) \o require, {}, R, d)
  BY <1>4, <1>7, Sequenced
<1>9. Fits(g1 \o g2 \o setDRE \o getDefenderRelaySigner(p) \o require
             \o encode("StakedTokenV3Rev3", 0) \o encode("StakedTokenBptRev2", 3), {}, R, d)
  BY <1>3, <1>8, Chain
<1>. QED  BY <1>4, <1>5, <1>9, Sequenced

LEMMA OtherProposalsFit ==
  ASSUME NEW p \in Flags, NEW d, Signer(p) = d
  PROVE  /\ Fits(ProposalStkExtensionsTask(p), {}, {}, d)
         /\ Fits(ProposeVaultApprovalTask(p), {}, {}, d)
         /\ Fits(ProposalVaultApprovalTask(p), {}, {}, d)
<1>1. /\ Fits(setDRE, {}, {}, d) /\ Fits(getDefenderRelaySigner(p), {}, {}, d)
  BY QuietSteps
<1>2. \A name, flag : \A q \in Flags :
        Signer(q) = d => /\ Fits(run(name, q), {}, {}, d)
                         /\ Fits(Only(flag, run(name, q)), {}, {}, d)
  <2>1. ASSUME NEW name, NEW flag, NEW q \in Flags, Signer(q) = d
        PROVE  Fits(run(name, q), {}, {}, d) /\ Fits(Only(flag, run(name, q)), {}, {}, d)
    <3>1. Fits(run(name, q), {}, {}, d)
      BY <2>1, RunStep
    <3>. QED  BY <3>1, OnlySteps
  <2>. QED  BY <2>1
<1>3. Fits(ProposalStkExtensionsTask(p), {}, {}, d)
  <2>. DEFINE q == [NoFlags EXCEPT !.defender = p.defender]
              r1 == Only(~p.stkREXimpl, run("deploy-staked-rex-rev3", q))
              r2 == Only(~p.stkbptimpl, run("deploy-staked-bpt-rev2", q))
              r3 == run("propose-extension", p)
  <2>1. Fits(r1, {}, {}, d) /\ Fits(r2, {}, {}, d) /\ Fits(r3, {}, {}, d)
    BY <1>2, FlagsSigner
  <2>2. ProposalStkExtensionsTask(p) = setDRE \o getDefenderRelaySigner(p) \o r1 \o r2 \o r3
    BY DEF ProposalStkExtensionsTask
  <2>. HIDE DEF r1, r2, r3
  <2>3. Fits(setDRE \o getDefenderRelaySigner(p) \o r1, {}, {}, d)
    BY <1>1, <2>1, Chain
  <2>. QED  BY <2>1, <2>2, <2>3, Chain
<1>4. Fits(ProposeVaultApprovalTask(p), {}, {}, d)
  <2>1. Fits(<<[op |-> "create", from |-> d, impls |-> {}]>>, {}, {}, d)
    <3>1. Present({}) = {} /\ {} \in SUBSET ImplRoles
      BY DEF Present
    <3>. QED  BY <3>1, CreateFits
  <2>. QED  BY <1>1, <2>1, Chain DEF ProposeVaultApprovalTask
<1>5. Fits(ProposalVaultApprovalTask(p), {}, {}, d)
  <2>1. Fits(run("propose-vault-approval", p), {}, {}, d)
    BY <1>2
  <2>. QED  BY <1>1, <2>1, Chain DEF ProposalVaultApprovalTask
<1>. QED  BY <1>3, <1>4, <1>5

LEMMA CommonTasksFit ==
  ASSUME NEW p \in Flags, NEW d, Signer(p) = d
  PROVE  /\ Fits(setDRE, {}, {}, d)
         /\ Fits(VerifyScTask, {}, {}, d)
         /\ Fits(CommonDeploymentTask(p), {}, {}, d)
         /\ Fits(DevDeploymentTask, {}, {}, d)
         /\ Fits(InitializeStakedREXV3Task(p), {}, {}, d)
<1>1. /\ Fits(setDRE, {}, {}, d) /\ Fits(useDRE, {}, {}, d)
      /\ Fits(checkVerification(p.verify), {}, {}, d) /\ Fits(requireParams, {}, {}, d)
      /\ Fits(encode("StakedREXV3", 4), {}, {}, d) /\ Fits(proxyInit("proxy", "impl"), {}, {}, d)
  BY QuietSteps
<1>2. Fits(VerifyScTask, {}, {}, d)
  BY RunStep DEF VerifyScTask, TaskNames
<1>3. Fits(CommonDeploymentTask(p), {}, {}, d)
  <2>1. Fits(run("deploy-StakedREXV3", p), {}, {}, d) /\ Fits(run("initialize-StakedREXV3", p), {}, {}, d)
    BY RunStep
  <2>2. Fits(useDRE \o checkVerification(p.verify) \o run("deploy-StakedREXV3", p), {}, {}, d)
    BY <1>1, <2>1, Chain
  <2>. QED  BY <2>1, <2>2, Sequenced DEF CommonDeploymentTask
<1>4. Fits(DevDeploymentTask, {}, {}, d)
  <2>1. Fits(run("deploy-StakedREX", NoFlags), {}, {}, d)
    BY RunStep DEF TaskNames
  <2>. QED  BY <1>1, <2>1, Sequenced DEF DevDeploymentTask
<1>5. Fits(InitializeStakedREXV3Task(p), {}, {}, d)
  <2>1. /\ "impl" \in Roles /\ "proxy" \in Roles /\ "impl" \notin ImplRoles /\ "proxy" \notin ImplRoles
        /\ <<"StakedREXImpl", "">> \in Keys /\ <<"StakedREXV3", "">> \in Keys
    BY DEF Roles, ImplRoles, Keys, Kinds
  <2>2. \A r : Others({}, r) = {}
    BY DEF Others
  <2>3. Fits(getStakedREXImpl("impl"), {}, {}, d) /\ Fits(getStakedREXProxy("proxy"), {}, {}, d)
    BY <2>1, <2>2, OverwritingSteps DEF getStakedREXImpl, getStakedREXProxy
  <2>. QED  BY <1>1, <2>3, LongChain DEF InitializeStakedREXV3Task, proxyInit
<1>. QED  BY <1>1, <1>2, <1>3, <1>4, <1>5

\* Every task's script fits, with the signer its flags choose.
LEMMA LoadedTasksFit ==
  ASSUME NEW p \in Flags, NEW t \in TaskNames
  PROVE  Fits(LoadedTasks(p)[t], {}, Goal(t), Signer(p))
<1>. DEFINE d == Signer(p)
<1>1. CASE t \in {"deploy-StakedREXV3", "deploy-RollexStakingHelper", "deploy-StakeUIHelper",
                  "deploy-StakedTokenDataProvider"}
  <2>1. /\ LoadedTasks(p)["deploy-StakedREXV3"] = DeployStakedREXV3Task(p)
        /\ LoadedTasks(p)["deploy-RollexStakingHelper"] = DeployRollexStakingHelperTask(p)
        /\ LoadedTasks(p)["deploy-StakeUIHelper"] = DeployStakeUIHelperTask(p)
        /\ LoadedTasks(p)["deploy-StakedTokenDataProvider"] = DeployStakedTokenDataProviderTask(p)
    BY DEF LoadedTasks, TaskNames
  <2>. QED  BY <1>1, <2>1, DeployStakedREXV3Fits, OneContractTasksFit
<1>2. CASE t \in {"set-dre", "verify-sc", "common-deployment", "dev-deployment", "initialize-StakedREXV3"}
  <2>1. /\ LoadedTasks(p)["set-dre"] = setDRE
        /\ LoadedTasks(p)["verify-sc"] = VerifyScTask
        /\ LoadedTasks(p)["common-deployment"] = CommonDeploymentTask(p)
        /\ LoadedTasks(p)["dev-deployment"] = DevDeploymentTask
        /\ LoadedTasks(p)["initialize-StakedREXV3"] = InitializeStakedREXV3Task(p)
    BY DEF LoadedTasks, TaskNames
  <2>2. Goal(t) = {}
    BY <1>2 DEF Goal
  <2>. QED  BY <1>2, <2>1, <2>2, CommonTasksFit
<1>3. CASE t \in {"deploy-staked-rex-rev3", "propose-extension", "proposal-stk-extensions",
                  "propose-vault-approval", "proposal-vault-approval", "test"}
  <2>1. /\ LoadedTasks(p)["deploy-staked-rex-rev3"] = DeployStakedRexRev3Task(p)
        /\ LoadedTasks(p)["propose-extension"] = ProposeExtensionTask(p)
        /\ LoadedTasks(p)["proposal-stk-extensions"] = ProposalStkExtensionsTask(p)
        /\ LoadedTasks(p)["propose-vault-approval"] = ProposeVaultApprovalTask(p)
        /\ LoadedTasks(p)["proposal-vault-approval"] = ProposalVaultApprovalTask(p)
        /\ LoadedTasks(p)["test"] = TestSetup
    BY DEF LoadedTasks, TaskNames
  <2>2. Goal(t) = {}
    BY <1>3 DEF Goal
  <2>. QED
    BY <1>3, <2>1, <2>2, ImplDeploymentFits, ProposeExtensionFits, OtherProposalsFit, TestSetupFits
<1>. QED  BY <1>1, <1>2, <1>3 DEF TaskNames

------------------------------------------------------------------------------
(* The states *)

ContractFields == {"kind", "from", "status", "logic", "revision", "approved"}

\* What the proofs use of the contracts on a chain
ChainShape(c) ==
  /\ c = [n \in ConfiguredNetworks |-> c[n]]
  /\ \A n \in ConfiguredNetworks :
       /\ c[n] \in Seq(Range(c[n]))
       /\ Len(c[n]) <= MaxContracts
       /\ \A a \in 1 .. Len(c[n]) : ContractFields \subseteq DOMAIN c[n][a]

\* c2 has the contracts of c, whatever happened to their proxies' state.
Alike(c, c2) ==
  \A n \in ConfiguredNetworks :
    /\ Len(c2[n]) = Len(c[n])
    /\ \A a \in 1 .. Len(c[n]) : /\ c2[n][a].kind = c[n][a].kind
                                 /\ c2[n][a].from = c[n][a].from
                                 /\ c2[n][a].status = c[n][a].status

ProcessTypes ==
  /\ task \in TaskNames \cup {"none"}
  /\ flags \in Flags /\ dre \in BOOLEAN /\ secrets \in BOOLEAN
  /\ inst \in [Roles -> 0 .. Outside]
  /\ outcome \in {"none", "running", "finished", "aborted", "crashed"}
  /\ outcome # "running" => todo = <<>>
  /\ runs \in 0 .. Len(Tasks)
  /\ db \in [ConfiguredNetworks -> [Keys -> 0 .. MaxContracts]]
  /\ network \in ConfiguredNetworks

\* What the process has still to do fits what is the case, and will lead to
\* the goal of its task.
ScriptFits ==
  outcome \in {"running", "finished"} => Fits(todo, FactsNow, Goal(task), Signer(flags))

\* An implementation is given, or sent by the account that will propose it.
ImplsOurs ==
  \A r \in ImplRoles :
    \/ inst[r] \in {0, Outside}
    \/ inst[r] \in 1 .. Len(chain[network]) /\ Here(inst[r]).from = Signer(flags)

ProposalsNamed ==
  \A p \in proposals : \A a \in p :
    a = Outside \/ (a \in 1 .. Len(chain["main"]) /\ chain["main"][a].status # "pending")

ProcessOK ==
  /\ ProcessTypes /\ ChainShape(chain)
  /\ ScriptFits /\ ImplsOurs /\ ProposalsNamed

CallInTask == outcome # "running" => vpc = "returned"

DeploymentIInv == AttemptsCounted /\ VerificationTypeOK /\ ProcessOK /\ CallInTask

LEMMA MaxIsNat == MaxContracts \in Nat /\ MaxContracts >= 1 /\ Outside \in Nat /\ MaxContracts < Outside
                  /\ Addresses = 1 .. MaxContracts
BY DeploymentAssumption DEF Outside

LEMMA NetworksDiffer == ConfiguredNetworks = {"main", "hardhat"} /\ "main" # "hardhat"
                        /\ ConfiguredNetworks \subseteq Networks
BY DEF ConfiguredNetworks, Networks, SUPPORTED_ETHERSCAN_NETWORKS

\* On a chain alike the same facts hold.
LEMMA AlikeKeeps ==
  ASSUME ProcessOK, ChainShape(chain'), Alike(chain, chain'),
         UNCHANGED <<inst, db, network, flags, proposals>>
  PROVE  FactsNow' = FactsNow /\ ImplsOurs' /\ ProposalsNamed'
<1>1. network \in ConfiguredNetworks /\ "main" \in ConfiguredNetworks
  BY NetworksDiffer DEF ProcessOK, ProcessTypes
<1>2. /\ Len(chain'[network]) = Len(chain[network])
      /\ \A a \in 1 .. Len(chain[network]) : /\ chain'[network][a].kind = chain[network][a].kind
                                             /\ chain'[network][a].from = chain[network][a].from
                                             /\ chain'[network][a].status = chain[network][a].status
  BY <1>1 DEF Alike
<1>3. ASSUME NEW f \in Facts PROVE FactHolds(f)' <=> FactHolds(f)
  <2>1. inst' = inst /\ db' = db /\ network' = network /\ Here(inst[f.role])' = chain'[network][inst[f.role]]
    BY DEF Here
  <2>2. f.sort \in {"present", "own", "kind", "mined", "stored"}
    BY DEF Facts
  <2>. QED  BY <1>2, <2>1, <2>2 DEF FactHolds, Here
<1>4. FactsNow' = FactsNow
  BY <1>3 DEF FactsNow
<1>5. ImplsOurs'
  BY <1>2 DEF ProcessOK, ImplsOurs, Here
<1>6. ProposalsNamed'
  BY <1>1 DEF ProcessOK, ProposalsNamed, Alike
<1>. QED  BY <1>4, <1>5, <1>6

LEMMA SameIsAlike == Alike(chain, chain)
BY DEF Alike

\* c2 has the contracts of c but for a field of the contract p on the network n.
AlikeBut(c, c2, n, p, field) ==
  \A m \in ConfiguredNetworks :
    /\ Len(c2[m]) = Len(c[m])
    /\ \A a \in 1 .. Len(c[m]) : \A g \in ContractFields :
         (m = n /\ a = p /\ g = field) \/ c2[m][a][g] = c[m][a][g]

\* Setting a field of a contract
LEMMA EntrySet ==
  ASSUME NEW c, ChainShape(c), NEW n \in ConfiguredNetworks, NEW p, NEW v, NEW field
  PROVE  LET c2 == [c EXCEPT ![n][p][field] = v]
         IN  ChainShape(c2) /\ AlikeBut(c, c2, n, p, field)
<1>. DEFINE c2 == [c EXCEPT ![n][p][field] = v]
            s == c[n]
            e == [s[p] EXCEPT ![field] = v]
            s2 == [s EXCEPT ![p] = e]
<1>1. /\ c2 = [m \in ConfiguredNetworks |-> c2[m]]
      /\ c2[n] = s2
      /\ \A m \in ConfiguredNetworks \ {n} : c2[m] = c[m]
  BY DEF ChainShape
<1>2. /\ s \in Seq(Range(s)) /\ Len(s) \in Nat /\ DOMAIN s = 1 .. Len(s)
      /\ Len(s) <= MaxContracts
      /\ \A a \in 1 .. Len(s) : ContractFields \subseteq DOMAIN s[a]
  BY LenProperties DEF ChainShape
<1>3. CASE p \notin 1 .. Len(s)
  <2>1. s2 = s
    BY <1>2, <1>3
  <2>. HIDE DEF s2, c2
  <2>2. \A m \in ConfiguredNetworks : c2[m] = c[m]
    BY <1>1, <2>1
  <2>3. c2 = c
    BY <1>1, <2>2 DEF ChainShape
  <2>. QED  BY <2>3 DEF AlikeBut, c2
<1>4. CASE p \in 1 .. Len(s)
  <2>1. /\ s2 \in Seq(Range(s) \cup {e}) /\ Len(s2) = Len(s)
        /\ \A a \in 1 .. Len(s) : s2[a] = IF a = p THEN e ELSE s[a]
    <3>1. s \in Seq(Range(s) \cup {e})
      BY <1>2, SeqMonotonic
    <3>. HIDE DEF e
    <3>2. e \in Range(s) \cup {e}
      OBVIOUS
    <3>. HIDE DEF s
    <3>. QED  BY <1>4, <3>1, <3>2, ExceptSeq
  <2>2. /\ \A g \in ContractFields : g # field => e[g] = s[p][g]
        /\ ContractFields \subseteq DOMAIN e
    BY <1>2, <1>4
  <2>3. s2 \in Seq(Range(s2))
    BY <2>1, SeqOfItsRange
  <2>. HIDE DEF s2, c2, e
  <2>4. ChainShape(c2)
    BY <1>1, <1>2, <2>1, <2>2, <2>3 DEF ChainShape
  <2>5. AlikeBut(c, c2, n, p, field)
    BY <1>1, <1>2, <2>1, <2>2 DEF AlikeBut
  <2>. QED  BY <2>4, <2>5 DEF c2
<1>. QED  BY <1>3, <1>4

LEMMA FieldSet ==
  ASSUME NEW c, ChainShape(c), NEW n \in ConfiguredNetworks, NEW p, NEW v,
         NEW field \in {"logic", "revision", "approved"}
  PROVE  LET c2 == [c EXCEPT ![n][p][field] = v]
         IN  ChainShape(c2) /\ Alike(c, c2)
<1>. DEFINE c2 == [c EXCEPT ![n][p][field] = v]
<1>1. ChainShape(c2) /\ AlikeBut(c, c2, n, p, field)
  BY EntrySet
<1>. HIDE DEF c2
<1>2. Alike(c, c2)
  BY <1>1 DEF Alike, AlikeBut, ContractFields
<1>. QED  BY <1>1, <1>2 DEF c2

LEMMA AlikeTransitive ==
  ASSUME NEW a, NEW b, NEW c, Alike(a, b), Alike(b, c)
  PROVE  Alike(a, c)
BY DEF Alike

------------------------------------------------------------------------------
(* The actions *)

LEMMA AbortKeeps ==
  ASSUME ProcessOK, NEW why, Abort(why)
  PROVE  ProcessOK'
<1>1. /\ UNCHANGED <<task, flags, dre, secrets, runs, inst, chain, proposals, db, network>>
      /\ outcome' = "aborted" /\ todo' = <<>>
  BY DEF Abort, process, world, verifyVars, environment
<1>2. FactsNow' = FactsNow /\ ImplsOurs' /\ ProposalsNamed' /\ ChainShape(chain')
  BY <1>1, AlikeKeeps, SameIsAlike DEF ProcessOK
<1>. QED  BY <1>1, <1>2 DEF ProcessOK, ProcessTypes, ScriptFits

\* A step of the script that changes no more than dre and proxies' states,
\* and after which the facts it gives hold.
LEMMA DoneKeeps ==
  ASSUME ProcessOK, outcome = "running", todo # <<>>, Done, dre' \in BOOLEAN,
         UNCHANGED <<task, flags, secrets, runs, inst, proposals, db, network>>,
         ChainShape(chain'), Alike(chain, chain'),
         \A f \in Facts : Gives(Head(todo), f) => FactHolds(f)
  PROVE  ProcessOK'
<1>1. FactsNow' = FactsNow /\ ImplsOurs' /\ ProposalsNamed'
  BY AlikeKeeps
<1>2. Fits(Tail(todo), After(FactsNow, Head(todo)), Goal(task), Signer(flags))
  BY FirstStep DEF ProcessOK, ScriptFits
<1>3. After(FactsNow, Head(todo)) \subseteq FactsNow /\ Goal(task) \subseteq Goal(task)
  BY DEF After, FactsNow
<1>4. Fits(Tail(todo), FactsNow, Goal(task), Signer(flags))
  BY <1>2, <1>3, Weakened
<1>5. ScriptFits'
  BY <1>1, <1>4 DEF ScriptFits, Done
<1>6. ProcessTypes'
  BY DEF ProcessOK, ProcessTypes, Done
<1>. QED  BY <1>1, <1>5, <1>6 DEF ProcessOK

\* What the script needs is the case.
LEMMA NeedsHold ==
  ASSUME ProcessOK, outcome = "running", todo # <<>>
  PROVE  LET x == Head(todo)
         IN  /\ FitStep(x, Signer(flags))
             /\ x.op \in {"wait", "verify", "register"} =>
                  x.role \in Roles /\ inst[x.role] \in 1 .. Len(chain[network])
             /\ x.op = "create" => \A r \in x.impls : r \in Roles /\ inst[r] # 0
<1>. DEFINE x == Head(todo)
<1>1. FitStep(x, Signer(flags)) /\ \A f \in Facts : Needs(x, f) => f \in FactsNow
  BY FirstStep DEF ProcessOK, ScriptFits
<1>2. \A sort \in {"present", "own"} : \A r \in Roles :
        [sort |-> sort, role |-> r, kind |-> "StakedREX", key |-> <<"StakedREX", "">>] \in Facts
  <2>1. "StakedREX" \in Kinds /\ <<"StakedREX", "">> \in Keys
    BY DEF Kinds, Keys
  <2>. QED  BY <2>1 DEF Facts
<1>. HIDE DEF x
<1>3. ASSUME x.op \in {"wait", "verify", "register"}
      PROVE  x.role \in Roles /\ inst[x.role] \in 1 .. Len(chain[network])
  <2>. DEFINE f == [sort |-> "own", role |-> x.role, kind |-> "StakedREX", key |-> <<"StakedREX", "">>]
  <2>1. x.role \in Roles
    BY <1>1, <1>3 DEF FitStep
  <2>2. f \in Facts /\ Needs(x, f)
    BY <1>2, <1>3, <2>1 DEF Needs
  <2>3. FactHolds(f)
    BY <1>1, <2>2 DEF FactsNow
  <2>. QED  BY <2>1, <2>3 DEF FactHolds
<1>4. ASSUME x.op = "create", NEW r \in x.impls
      PROVE  r \in Roles /\ inst[r] # 0
  <2>. DEFINE f == [sort |-> "present", role |-> r, kind |-> "StakedREX", key |-> <<"StakedREX", "">>]
  <2>1. r \in Roles
    BY <1>1, <1>4 DEF FitStep, ImplRoles, Roles
  <2>2. f \in Facts /\ Needs(x, f)
    BY <1>2, <1>4, <2>1 DEF Needs
  <2>3. FactHolds(f)
    BY <1>1, <2>2 DEF FactsNow
  <2>. QED  BY <2>1, <2>3 DEF FactHolds
<1>. QED  BY <1>1, <1>3, <1>4 DEF x

LEMMA GivesNothing ==
  ASSUME NEW x, x.op \notin {"send", "wait", "register", "requireImpls"}
  PROVE  \A f \in Facts : ~Gives(x, f)
BY DEF Gives

LEMMA QuietKeeps ==
  ASSUME ProcessOK,
         \/ SetDRE \/ UseDRE \/ CheckVerification \/ RequireParams \/ Defender \/ Encode \/ Verify
         \/ RequireImpls \/ Wait
  PROVE  ProcessOK'
<1>1. ASSUME outcome = "running", todo # <<>>, Done, dre' \in BOOLEAN,
             UNCHANGED <<task, flags, secrets, runs, inst, proposals, db, network>>, chain' = chain,
             \A f \in Facts : Gives(Head(todo), f) => FactHolds(f)
      PROVE  ProcessOK'
  BY <1>1, DoneKeeps, SameIsAlike DEF ProcessOK
<1>. USE DEF At, process, world, verifyVars, environment
<1>0. dre \in BOOLEAN
  BY DEF ProcessOK, ProcessTypes
<1>2. CASE SetDRE
  BY <1>1, <1>2, GivesNothing DEF SetDRE
<1>3. CASE UseDRE
  BY <1>1, <1>3, GivesNothing, AbortKeeps DEF UseDRE
<1>4. CASE CheckVerification
  BY <1>0, <1>1, <1>4, GivesNothing, AbortKeeps DEF CheckVerification
<1>5. CASE RequireParams
  BY <1>0, <1>1, <1>5, GivesNothing, AbortKeeps DEF RequireParams
<1>6. CASE Defender
  BY <1>0, <1>1, <1>6, GivesNothing, AbortKeeps DEF Defender
<1>7. CASE Encode
  BY <1>0, <1>1, <1>7, GivesNothing, AbortKeeps DEF Encode
<1>8. CASE Verify
  <2>1. CASE etherscanKey
    BY <1>0, <1>1, <1>8, <2>1, GivesNothing DEF Verify, verifyContract
  <2>2. CASE ~etherscanKey
    BY <1>8, <2>2, AbortKeeps DEF Verify
  <2>. QED  BY <2>1, <2>2
<1>9. CASE RequireImpls
  <2>1. CASE \A r \in Head(todo).impls : inst[r] # 0
    <3>1. \A f \in Facts : Gives(Head(todo), f) => FactHolds(f)
      BY <1>9, <2>1 DEF RequireImpls, Gives, FactHolds
    <3>. QED  BY <1>0, <1>1, <1>9, <2>1, <3>1 DEF RequireImpls
  <2>2. CASE ~(\A r \in Head(todo).impls : inst[r] # 0)
    BY <1>9, <2>2, AbortKeeps DEF RequireImpls
  <2>. QED  BY <2>1, <2>2
<1>10. CASE Wait
  <2>. DEFINE a == inst[Head(todo).role]
  <2>1. CASE Here(a).status = "mined"
    <3>1. a \in 1 .. Len(chain[network])
      BY <1>10, NeedsHold DEF Wait
    <3>2. \A f \in Facts : Gives(Head(todo), f) => FactHolds(f)
      BY <1>10, <2>1, <3>1 DEF Wait, Gives, FactHolds
    <3>. QED  BY <1>0, <1>1, <1>10, <2>1, <3>2 DEF Wait
  <2>2. CASE ~(Here(a).status = "mined")
    BY <1>10, <2>2, AbortKeeps DEF Wait
  <2>. QED  BY <2>1, <2>2
<1>. QED  BY <1>2, <1>3, <1>4, <1>5, <1>6, <1>7, <1>8, <1>9, <1>10

LEMMA FieldHasValue ==
  ASSUME NEW c, ChainShape(c), NEW n \in ConfiguredNetworks, NEW p, NEW v,
         NEW field, field \in ContractFields
  PROVE  LET c2 == [c EXCEPT ![n][p][field] = v]
         IN  p \in 1 .. Len(c[n]) => c2[n][p][field] = v
<1>. SUFFICES ASSUME p \in 1 .. Len(c[n])
              PROVE  [c EXCEPT ![n][p][field] = v][n][p][field] = v
  OBVIOUS
<1>1. n \in DOMAIN c /\ p \in DOMAIN c[n] /\ field \in DOMAIN c[n][p]
  BY LenProperties DEF ChainShape
<1>. QED  BY <1>1

\* What an initialization or an upgrade writes
LogicSet(c, c2, n, p, l, v) ==
  /\ Len(c2[n]) = Len(c[n])
  /\ \A a \in 1 .. Len(c[n]) :
       /\ c2[n][a].kind = c[n][a].kind /\ c2[n][a].approved = c[n][a].approved
       /\ a # p => c2[n][a].logic = c[n][a].logic /\ c2[n][a].revision = c[n][a].revision
       /\ a = p => c2[n][a].logic = l /\ c2[n][a].revision = v

LEMMA LogicAndRevisionSet ==
  ASSUME NEW c, ChainShape(c), NEW n \in ConfiguredNetworks, NEW p, NEW l, NEW v
  PROVE  LET c2 == [c EXCEPT ![n][p].logic = l, ![n][p].revision = v]
         IN  ChainShape(c2) /\ Alike(c, c2) /\ LogicSet(c, c2, n, p, l, v)
<1>. DEFINE b == [c EXCEPT ![n][p]["logic"] = l]
            c2 == [b EXCEPT ![n][p]["revision"] = v]
<1>1. "logic" \in ContractFields /\ "revision" \in ContractFields
  BY DEF ContractFields
<1>2. ChainShape(b) /\ AlikeBut(c, b, n, p, "logic")
  BY EntrySet
<1>3. p \in 1 .. Len(c[n]) => b[n][p]["logic"] = l
  BY <1>1, FieldHasValue
<1>. HIDE DEF b
<1>4. ChainShape(c2) /\ AlikeBut(b, c2, n, p, "revision")
  BY <1>2, EntrySet
<1>5. p \in 1 .. Len(b[n]) => c2[n][p]["revision"] = v
  BY <1>1, <1>2, FieldHasValue
<1>. HIDE DEF c2
<1>6. /\ Len(c2[n]) = Len(c[n]) /\ Len(b[n]) = Len(c[n])
      /\ \A a \in 1 .. Len(c[n]) :
           /\ c2[n][a].kind = c[n][a].kind /\ c2[n][a].approved = c[n][a].approved
           /\ c2[n][a].logic = b[n][a].logic /\ b[n][a].revision = c[n][a].revision
           /\ a # p => b[n][a].logic = c[n][a].logic /\ c2[n][a].revision = b[n][a].revision
  BY <1>2, <1>4 DEF AlikeBut, ContractFields
<1>7. LogicSet(c, c2, n, p, l, v)
  BY <1>3, <1>5, <1>6 DEF LogicSet
<1>8. Alike(c, c2)
  BY <1>2, <1>4 DEF Alike, AlikeBut, ContractFields
<1>9. c2 = [c EXCEPT ![n][p].logic = l, ![n][p].revision = v]
  BY DEF b, c2
<1>. QED  BY <1>4, <1>7, <1>8, <1>9

\* An initialization, or an upgrade, that does not revert
LogicWritten ==
  LET q == inst[Head(todo).role]
      l == inst[Head(todo).logic]
  IN  /\ outcome = "running" /\ todo # <<>> /\ Done
      /\ Head(todo).op \in {"proxyInit", "upgrade"}
      /\ Head(todo).op = "proxyInit" => Here(q).logic = 0
      /\ UNCHANGED <<process, inst, proposals, db, verifyVars>>
      /\ ChainShape(chain') /\ Alike(chain, chain')
      /\ LogicSet(chain, chain', network, q, l, Revision[Here(l).kind])

LEMMA ProxyWritten ==
  ASSUME ProcessOK, ProxyInit \/ Upgrade
  PROVE  LogicWritten \/ Abort("reverted")
<1>. DEFINE q == inst[Head(todo).role]
            l == inst[Head(todo).logic]
            v == Revision[Here(l).kind]
            c2 == [chain EXCEPT ![network][q].logic = l, ![network][q].revision = v]
<1>1. \/ Abort("reverted")
      \/ /\ outcome = "running" /\ todo # <<>> /\ Done
         /\ Head(todo).op \in {"proxyInit", "upgrade"}
         /\ Head(todo).op = "proxyInit" => Here(q).logic = 0
         /\ UNCHANGED <<process, inst, proposals, db, verifyVars>>
         /\ chain' = c2
  <2>1. CASE ProxyInit
    BY <2>1, Zenon DEF ProxyInit, At
  <2>2. CASE Upgrade
    <3>1. outcome = "running" /\ todo # <<>> /\ Head(todo).op = "upgrade"
      BY <2>2, Zenon DEF Upgrade, At
    <3>2. Head(todo).op # "proxyInit" /\ Head(todo).op \in {"proxyInit", "upgrade"}
      BY <3>1
    <3>. QED  BY <2>2, <3>1, <3>2, Zenon DEF Upgrade
  <2>. QED  BY <2>1, <2>2
<1>2. network \in ConfiguredNetworks /\ ChainShape(chain)
  BY DEF ProcessOK, ProcessTypes
<1>3. ChainShape(c2) /\ Alike(chain, c2) /\ LogicSet(chain, c2, network, q, l, v)
  <2>1. \A a, b, d : LET e == [chain EXCEPT ![network][a].logic = b, ![network][a].revision = d]
                     IN  ChainShape(e) /\ Alike(chain, e) /\ LogicSet(chain, e, network, a, b, d)
    BY ONLY <1>2, LogicAndRevisionSet
  <2>. QED  BY ONLY <2>1, Zenon
<1>. HIDE DEF c2
<1>4. CASE ~Abort("reverted")
  <2>1. chain' = c2
    BY <1>1, <1>4
  <2>. HIDE DEF q, l, v
  <2>2. ChainShape(chain') /\ Alike(chain, chain') /\ LogicSet(chain, chain', network, q, l, v)
    BY <1>3, <2>1
  <2>3. LogicWritten
    BY <1>1, <1>4, <2>2 DEF LogicWritten, q, l, v
  <2>. QED  BY <2>3
<1>. QED  BY <1>4

LEMMA ProxyStepsKeep ==
  ASSUME ProcessOK, ProxyInit \/ Upgrade \/ Approve
  PROVE  ProcessOK'
<1>1. ASSUME outcome = "running", todo # <<>>, Done, ChainShape(chain'), Alike(chain, chain'),
             UNCHANGED <<process, inst, proposals, db, verifyVars>>,
             Head(todo).op \in {"proxyInit", "upgrade", "approve"}
      PROVE  ProcessOK'
  BY <1>1, DoneKeeps, GivesNothing DEF process, verifyVars, environment, ProcessOK, ProcessTypes
<1>2. CASE ProxyInit \/ Upgrade
  <2>1. CASE LogicWritten
    BY <1>1, <2>1 DEF LogicWritten
  <2>2. CASE Abort("reverted")
    BY <2>2, AbortKeeps
  <2>. QED  BY <1>2, <2>1, <2>2, ProxyWritten
<1>3. CASE Approve
  <2>1. network \in ConfiguredNetworks /\ ChainShape(chain)
    BY DEF ProcessOK, ProcessTypes
  <2>2. chain' = [chain EXCEPT ![network][inst[Head(todo).role]]["approved"] = TRUE]
    BY <1>3 DEF Approve
  <2>3. ChainShape(chain') /\ Alike(chain, chain')
    BY <2>1, <2>2, FieldSet
  <2>. QED  BY <1>1, <1>3, <2>3 DEF Approve, At
<1>. QED  BY <1>2, <1>3

\* A step that gives role another instance
LEMMA InstanceSet ==
  ASSUME ProcessOK, outcome = "running", todo # <<>>, Done,
         UNCHANGED <<task, flags, dre, secrets, runs, chain, proposals, db, network>>,
         Head(todo).op \in {"lookup", "given"}, NEW a \in 0 .. Outside,
         inst' = [inst EXCEPT ![Head(todo).role] = a],
         Head(todo).role \in ImplRoles => a = Outside
  PROVE  ProcessOK'
<1>. DEFINE x == Head(todo)
<1>1. FitStep(x, Signer(flags)) /\ Fits(Tail(todo), After(FactsNow, x), Goal(task), Signer(flags))
  BY FirstStep DEF ProcessOK, ScriptFits
<1>2. x.role \in Roles /\ inst \in [Roles -> 0 .. Outside]
  BY <1>1 DEF FitStep, ProcessOK, ProcessTypes
<1>. HIDE DEF x
<1>3. inst' \in [Roles -> 0 .. Outside] /\ inst'[x.role] = a
      /\ \A r \in Roles \ {x.role} : inst'[r] = inst[r]
  BY <1>2 DEF x
<1>4. After(FactsNow, x) \subseteq FactsNow'
  <2>1. ASSUME NEW f \in Facts, f \in After(FactsNow, x)
        PROVE  FactHolds(f)'
    <3>1. ~Gives(x, f)
      BY GivesNothing DEF x
    <3>2. FactHolds(f) /\ f.role # x.role
      BY <2>1, <3>1 DEF After, FactsNow, Breaks, x
    <3>3. f.role \in Roles
      BY DEF Facts
    <3>. QED  BY <1>3, <3>2, <3>3 DEF FactHolds, Here
  <2>. QED  BY <2>1 DEF After, FactsNow
<1>5. ScriptFits'
  <2>1. Goal(task) \subseteq Goal(task)
    OBVIOUS
  <2>2. Fits(Tail(todo), FactsNow', Goal(task), Signer(flags))
    BY <1>1, <1>4, <2>1, Weakened DEF x
  <2>. QED  BY <2>2 DEF ScriptFits, Done
<1>6. ImplsOurs'
  <2>1. ImplRoles \subseteq Roles
    BY DEF ImplRoles, Roles
  <2>. QED  BY <1>3, <2>1 DEF ProcessOK, ImplsOurs, Here, x
<1>7. ProcessTypes' /\ ChainShape(chain)' /\ ProposalsNamed'
  BY <1>3 DEF ProcessOK, ProcessTypes, ProposalsNamed, Done, ChainShape
<1>. QED  BY <1>5, <1>6, <1>7 DEF ProcessOK

LEMMA LookupGivenKeep ==
  ASSUME ProcessOK, Lookup \/ Given
  PROVE  ProcessOK'
<1>. USE DEF At, process, world, verifyVars, environment
<1>1. CASE Given
  <2>1. Outside \in 0 .. Outside
    BY MaxIsNat
  <2>. QED  BY <1>1, <2>1, InstanceSet DEF Given
<1>2. CASE Lookup
  <2>. DEFINE x == Head(todo)
              a == db[network][x.key]
  <2>1. FitStep(x, Signer(flags)) /\ x.op = "lookup"
    BY <1>2, NeedsHold DEF Lookup
  <2>2. a \in 0 .. Outside /\ x.role \notin ImplRoles
    <3>1. a \in 0 .. MaxContracts
      BY <2>1 DEF FitStep, ProcessOK, ProcessTypes
    <3>. QED  BY <2>1, <3>1, MaxIsNat DEF FitStep
  <2>3. CASE a = 0
    BY <1>2, <2>3, AbortKeeps DEF Lookup
  <2>4. CASE a # 0
    BY <1>2, <2>1, <2>2, <2>4, InstanceSet DEF Lookup
  <2>. QED  BY <2>3, <2>4
<1>. QED  BY <1>1, <1>2

LEMMA RegisterKeeps ==
  ASSUME ProcessOK, Register
  PROVE  ProcessOK'
<1>. USE DEF At, process, world, verifyVars, environment
<1>. DEFINE x == Head(todo)
<1>1. /\ outcome = "running" /\ todo # <<>> /\ x.op = "register" /\ Done
      /\ db' = [db EXCEPT ![network][x.key] = inst[x.role]]
      /\ UNCHANGED <<task, flags, dre, secrets, runs, inst, chain, proposals, network>>
  BY DEF Register
<1>2. FitStep(x, Signer(flags)) /\ Fits(Tail(todo), After(FactsNow, x), Goal(task), Signer(flags))
  BY <1>1, FirstStep DEF ProcessOK, ScriptFits
<1>3. /\ x.role \in Roles /\ x.key \in Keys /\ inst[x.role] \in 1 .. Len(chain[network])
      /\ network \in ConfiguredNetworks /\ Len(chain[network]) \in Nat
      /\ Len(chain[network]) <= MaxContracts
  <2>1. network \in ConfiguredNetworks
    BY DEF ProcessOK, ProcessTypes
  <2>2. Len(chain[network]) \in Nat /\ Len(chain[network]) <= MaxContracts
    BY <2>1, LenProperties DEF ProcessOK, ChainShape
  <2>. QED  BY <1>1, <1>2, <2>1, <2>2, NeedsHold DEF FitStep
<1>. HIDE DEF x
<1>4. /\ db' \in [ConfiguredNetworks -> [Keys -> 0 .. MaxContracts]]
      /\ db'[network][x.key] = inst[x.role]
      /\ \A k \in Keys \ {x.key} : db'[network][k] = db[network][k]
  <2>1. inst[x.role] \in 0 .. MaxContracts
    BY <1>3, MaxIsNat
  <2>2. db \in [ConfiguredNetworks -> [Keys -> 0 .. MaxContracts]]
    BY DEF ProcessOK, ProcessTypes
  <2>. QED  BY <1>1, <1>3, <2>1, <2>2
<1>5. After(FactsNow, x) \subseteq FactsNow'
  <2>1. ASSUME NEW f \in Facts, f \in After(FactsNow, x)
        PROVE  FactHolds(f)'
    <3>1. f.key \in Keys /\ f.sort \in {"present", "own", "kind", "mined", "stored"}
      BY DEF Facts
    <3>2. CASE Gives(x, f)
      <4>1. f.role = x.role /\ f.key = x.key /\ f.sort = "stored"
        BY <1>1, <3>2 DEF Gives
      <4>. QED  BY <1>1, <1>3, <1>4, <4>1 DEF FactHolds
    <3>3. CASE ~Gives(x, f)
      <4>1. FactHolds(f) /\ (f.sort = "stored" => f.key # x.key)
        BY <1>1, <2>1, <3>3 DEF After, FactsNow, Breaks
      <4>. QED  BY <1>1, <1>4, <3>1, <4>1 DEF FactHolds, Here
    <3>. QED  BY <3>2, <3>3
  <2>. QED  BY <2>1 DEF After, FactsNow
<1>6. ScriptFits'
  <2>1. Goal(task) \subseteq Goal(task)
    OBVIOUS
  <2>2. Fits(Tail(todo), FactsNow', Goal(task), Signer(flags))
    BY <1>2, <1>5, <2>1, Weakened
  <2>. QED  BY <1>1, <2>2 DEF ScriptFits, Done
<1>7. ImplsOurs' /\ ChainShape(chain)' /\ ProposalsNamed'
  BY <1>1 DEF ProcessOK, ImplsOurs, ProposalsNamed, Here, ChainShape
<1>8. ProcessTypes'
  BY <1>1, <1>4 DEF ProcessOK, ProcessTypes, Done
<1>. QED  BY <1>6, <1>7, <1>8 DEF ProcessOK

LEMMA SendKeeps ==
  ASSUME ProcessOK, Send
  PROVE  ProcessOK'
<1>. USE DEF At, process, world, verifyVars, environment
<1>. DEFINE x == Head(todo)
            s == chain[network]
            status == IF network = "hardhat" THEN "mined" ELSE "pending"
            e == [kind |-> x.kind, from |-> x.from, status |-> status,
                  logic |-> 0, revision |-> 0, approved |-> FALSE]
<1>1. CASE Abort("reverted")
  BY <1>1, AbortKeeps
<1>2. CASE ~Abort("reverted")
  <2>1. /\ outcome = "running" /\ todo # <<>> /\ x.op = "send" /\ Done
        /\ Len(s) < MaxContracts
        /\ chain' = [chain EXCEPT ![network] = Append(s, e)]
        /\ inst' = [inst EXCEPT ![x.role] = Len(s) + 1]
        /\ UNCHANGED <<task, flags, dre, secrets, runs, proposals, db, network>>
    BY <1>2 DEF Send
  <2>2. FitStep(x, Signer(flags)) /\ Fits(Tail(todo), After(FactsNow, x), Goal(task), Signer(flags))
    BY <2>1, FirstStep DEF ProcessOK, ScriptFits
  <2>3. /\ x.role \in Roles /\ inst \in [Roles -> 0 .. Outside] /\ network \in ConfiguredNetworks
        /\ (x.role \in ImplRoles => x.from = Signer(flags))
    BY <2>1, <2>2 DEF FitStep, ProcessOK, ProcessTypes
  <2>4. s \in Seq(Range(s)) /\ Len(s) \in Nat
    BY <2>3, LenProperties DEF ProcessOK, ChainShape
  <2>5. e.kind = x.kind /\ e.from = x.from /\ ContractFields \subseteq DOMAIN e
    BY DEF ContractFields
  <2>. HIDE DEF x, e, status
  <2>6. /\ Append(s, e) \in Seq(Range(Append(s, e))) /\ Len(Append(s, e)) = Len(s) + 1
        /\ Append(s, e)[Len(s) + 1] = e
        /\ \A a \in 1 .. Len(s) : Append(s, e)[a] = s[a]
    <3>1. s \in Seq(Range(s) \cup {e})
      BY <2>4, SeqMonotonic
    <3>2. Append(s, e) \in Seq(Range(s) \cup {e})
      BY <3>1
    <3>3. Append(s, e) \in Seq(Range(Append(s, e)))
      BY <3>2, SeqOfItsRange
    <3>. QED  BY <2>4, <3>3
  <2>7. /\ chain'[network] = Append(s, e)
        /\ \A n \in ConfiguredNetworks \ {network} : chain'[n] = chain[n]
        /\ chain' = [n \in ConfiguredNetworks |-> chain'[n]]
    BY <2>1, <2>3 DEF ProcessOK, ChainShape
  <2>. DEFINE c2 == chain'
  <2>8. ChainShape(c2)
    <3>1. ASSUME NEW n \in ConfiguredNetworks
          PROVE  /\ c2[n] \in Seq(Range(c2[n])) /\ Len(c2[n]) <= MaxContracts
                 /\ \A a \in 1 .. Len(c2[n]) : ContractFields \subseteq DOMAIN c2[n][a]
      <4>1. CASE n # network
        BY <2>7, <4>1 DEF ProcessOK, ChainShape
      <4>2. CASE n = network
        <5>1. c2[n] \in Seq(Range(c2[n])) /\ Len(c2[n]) <= MaxContracts
          <6>1. c2[n] = Append(s, e) /\ Len(s) + 1 <= MaxContracts
            BY <2>1, <2>4, <2>7, <4>2, MaxIsNat
          <6>. HIDE DEF c2, s
          <6>. QED  BY <2>6, <6>1
        <5>2. \A a \in 1 .. Len(s) : ContractFields \subseteq DOMAIN s[a]
          BY <2>3 DEF ProcessOK, ChainShape
        <5>3. \A a \in 1 .. Len(s) + 1 : a \in 1 .. Len(s) \/ a = Len(s) + 1
          BY <2>4
        <5>. QED  BY <2>5, <2>6, <2>7, <4>2, <5>1, <5>2, <5>3
      <4>. QED  BY <4>1, <4>2
    <3>. QED  BY <2>7, <3>1 DEF ChainShape
  <2>9. /\ inst' \in [Roles -> 0 .. Outside] /\ inst'[x.role] = Len(s) + 1
        /\ \A r \in Roles \ {x.role} : inst'[r] = inst[r]
    <3>1. Len(s) + 1 \in 0 .. Outside
      BY <2>1, <2>4, MaxIsNat
    <3>. QED  BY <2>1, <2>3, <3>1
  <2>10. Len(s) + 1 \in 1 .. Len(c2[network]) /\ \A a \in 1 .. Len(s) : a \in 1 .. Len(c2[network])
    BY <2>4, <2>6, <2>7
  <2>11. After(FactsNow, x) \subseteq FactsNow'
    <3>1. ASSUME NEW f \in Facts, f \in After(FactsNow, x)
          PROVE  FactHolds(f)'
      <4>1. f.role \in Roles /\ f.sort \in {"present", "own", "kind", "mined", "stored"}
        BY DEF Facts
      <4>2. CASE Gives(x, f)
        <5>1. f.role = x.role /\ (f.sort = "own" \/ (f.sort = "kind" /\ f.kind = x.kind))
          BY <2>1, <4>2 DEF Gives
        <5>. QED  BY <2>1, <2>5, <2>6, <2>7, <2>9, <2>10, <5>1 DEF FactHolds, Here
      <4>3. CASE ~Gives(x, f)
        <5>1. FactHolds(f) /\ f.role # x.role
          BY <2>1, <3>1, <4>3 DEF After, FactsNow, Breaks
        <5>2. inst'[f.role] = inst[f.role]
          BY <2>9, <4>1, <5>1
        <5>3. CASE f.sort = "present"
          BY <5>1, <5>2, <5>3 DEF FactHolds
        <5>4. CASE f.sort # "present"
          <6>1. inst[f.role] \in 1 .. Len(s) /\ c2[network][inst[f.role]] = s[inst[f.role]]
            BY <2>6, <2>7, <5>1, <5>4 DEF FactHolds
          <6>. QED  BY <2>1, <2>10, <5>1, <5>2, <5>4, <6>1 DEF FactHolds, Here
        <5>. QED  BY <5>3, <5>4
      <4>. QED  BY <4>2, <4>3
    <3>. QED  BY <3>1 DEF After, FactsNow
  <2>12. ScriptFits'
    <3>1. Goal(task) \subseteq Goal(task)
      OBVIOUS
    <3>2. Fits(Tail(todo), FactsNow', Goal(task), Signer(flags))
      BY <2>2, <2>11, <3>1, Weakened
    <3>. QED  BY <2>1, <3>2 DEF ScriptFits, Done
  <2>13. ImplsOurs'
    <3>1. ImplRoles \subseteq Roles
      BY DEF ImplRoles, Roles
    <3>2. ASSUME NEW r \in ImplRoles
          PROVE  \/ inst'[r] \in {0, Outside}
                 \/ inst'[r] \in 1 .. Len(c2[network]) /\ c2[network][inst'[r]].from = Signer(flags)
      <4>1. CASE r = x.role
        BY <2>3, <2>5, <2>6, <2>7, <2>9, <2>10, <4>1
      <4>2. CASE r # x.role
        <5>1. inst'[r] = inst[r]
          BY <2>9, <3>1, <4>2
        <5>. QED  BY <2>6, <2>7, <2>10, <5>1 DEF ProcessOK, ImplsOurs, Here
      <4>. QED  BY <4>1, <4>2
    <3>. QED  BY <2>1, <3>2 DEF ImplsOurs, Here
  <2>14. ProposalsNamed'
    <3>1. CASE network = "main"
      BY <2>1, <2>6, <2>7, <2>10, <3>1 DEF ProcessOK, ProposalsNamed
    <3>2. CASE network # "main"
      BY <2>1, <2>7, <3>2, NetworksDiffer DEF ProcessOK, ProposalsNamed
    <3>. QED  BY <3>1, <3>2
  <2>15. ProcessTypes'
    BY <2>1, <2>9 DEF ProcessOK, ProcessTypes, Done
  <2>. QED  BY <2>8, <2>12, <2>13, <2>14, <2>15 DEF ProcessOK
<1>. QED  BY <1>1, <1>2

LEMMA OldestPending ==
  ASSUME ProcessOK, NEW who, Pending(who) # {}
  PROVE  Min(Pending(who)) \in Pending(who)
<1>1. Pending(who) \in SUBSET Nat
  BY DEF Pending
<1>2. PICK m \in Pending(who) : \A k \in Pending(who) : m <= k
  BY <1>1, LeastNumber
<1>. QED  BY <1>2 DEF Min

\* A transaction is mined: no fact is lost, and none a proposal is about.
LEMMA MineKeeps ==
  ASSUME ProcessOK, NEW who, Mine(who)
  PROVE  ProcessOK'
<1>. DEFINE m == Min(Pending(who))
<1>1. PICK status : chain' = [chain EXCEPT !["main"][m]["status"] = status]
  BY DEF Mine
<1>2. UNCHANGED <<task, todo, flags, dre, secrets, runs, inst, outcome, proposals, db, network>>
  BY DEF Mine, process, verifyVars, environment
<1>3. m \in 1 .. Len(chain["main"]) /\ chain["main"][m].status = "pending"
  BY OldestPending DEF Mine, Pending
<1>. HIDE DEF m
<1>4. network \in ConfiguredNetworks /\ "main" \in ConfiguredNetworks /\ ChainShape(chain)
  BY NetworksDiffer DEF ProcessOK, ProcessTypes
<1>. DEFINE c2 == [chain EXCEPT !["main"][m]["status"] = status]
<1>5. ChainShape(c2) /\ AlikeBut(chain, c2, "main", m, "status")
  BY <1>4, EntrySet
<1>. HIDE DEF c2
<1>6. chain' = c2
  BY <1>1 DEF c2
<1>7. \A n \in ConfiguredNetworks :
        /\ Len(c2[n]) = Len(chain[n])
        /\ \A a \in 1 .. Len(chain[n]) :
             /\ c2[n][a].kind = chain[n][a].kind /\ c2[n][a].from = chain[n][a].from
             /\ (n = "main" /\ a = m) \/ c2[n][a].status = chain[n][a].status
  BY <1>5 DEF AlikeBut, ContractFields
<1>8. ASSUME NEW f \in Facts, FactHolds(f)
      PROVE  FactHolds(f)'
  <2>1. f.sort \in {"present", "own", "kind", "mined", "stored"}
    BY DEF Facts
  <2>2. CASE f.sort = "present"
    BY <1>2, <1>8, <2>2 DEF FactHolds
  <2>3. CASE f.sort # "present"
    <3>1. inst[f.role] \in 1 .. Len(chain[network])
      BY <1>8, <2>3 DEF FactHolds
    <3>2. f.sort = "mined" => c2[network][inst[f.role]].status = "mined"
      <4>1. ASSUME f.sort = "mined"
            PROVE  chain[network][inst[f.role]].status = "mined"
                   /\ ~(network = "main" /\ inst[f.role] = m)
        BY <1>3, <1>8, <4>1 DEF FactHolds, Here
      <4>. QED  BY <1>4, <1>7, <3>1, <4>1
    <3>3. f.sort = "kind" => c2[network][inst[f.role]].kind = f.kind
      BY <1>4, <1>7, <1>8, <3>1 DEF FactHolds, Here
    <3>4. inst[f.role] \in 1 .. Len(c2[network])
      BY <1>4, <1>7, <3>1
    <3>. QED  BY <1>2, <1>6, <1>8, <2>3, <3>2, <3>3, <3>4 DEF FactHolds, Here
  <2>. QED  BY <2>2, <2>3
<1>9. ScriptFits'
  <2>1. FactsNow \subseteq FactsNow' /\ Goal(task) \subseteq Goal(task)
    BY <1>8 DEF FactsNow
  <2>2. outcome \in {"running", "finished"} => Fits(todo, FactsNow, Goal(task), Signer(flags))
    BY DEF ProcessOK, ScriptFits
  <2>3. outcome \in {"running", "finished"} => Fits(todo, FactsNow', Goal(task), Signer(flags))
    BY <2>1, <2>2, Weakened
  <2>. QED  BY <1>2, <2>3 DEF ScriptFits
<1>10. ImplsOurs'
  BY <1>2, <1>4, <1>6, <1>7 DEF ProcessOK, ImplsOurs, Here
<1>11. ProposalsNamed'
  BY <1>2, <1>3, <1>4, <1>6, <1>7 DEF ProcessOK, ProposalsNamed
<1>12. ProcessTypes'
  BY <1>2 DEF ProcessOK, ProcessTypes
<1>. QED  BY <1>5, <1>6, <1>9, <1>10, <1>11, <1>12 DEF ProcessOK

\* What a proposal names was sent by its proposer, who has nothing pending.
LEMMA CreateKeeps ==
  ASSUME ProcessOK, Create
  PROVE  ProcessOK'
<1>. USE DEF At, process, world, verifyVars, environment
<1>. DEFINE x == Head(todo)
<1>1. CASE Abort("reverted")
  BY <1>1, AbortKeeps
<1>2. CASE ~Abort("reverted")
  <2>1. /\ outcome = "running" /\ todo # <<>> /\ x.op = "create" /\ Done
        /\ network # "hardhat" /\ Pending(x.from) = {}
        /\ proposals' = proposals \cup {{inst[r] : r \in x.impls}}
        /\ UNCHANGED <<task, flags, dre, secrets, runs, inst, chain, db, network>>
    BY <1>2 DEF Create
  <2>2. /\ x.impls \subseteq ImplRoles /\ x.from = Signer(flags)
        /\ \A r \in x.impls : inst[r] # 0
    BY <2>1, NeedsHold DEF FitStep
  <2>3. Fits(Tail(todo), After(FactsNow, x), Goal(task), Signer(flags))
    BY <2>1, FirstStep DEF ProcessOK, ScriptFits
  <2>4. After(FactsNow, x) \subseteq FactsNow
    BY <2>1, GivesNothing DEF After
  <2>. HIDE DEF x
  <2>5. network = "main"
    BY <2>1, NetworksDiffer DEF ProcessOK, ProcessTypes
  <2>6. ASSUME NEW r \in x.impls
        PROVE  \/ inst[r] = Outside
               \/ inst[r] \in 1 .. Len(chain["main"]) /\ chain["main"][inst[r]].status # "pending"
    <3>1. \/ inst[r] = Outside
          \/ inst[r] \in 1 .. Len(chain["main"]) /\ chain["main"][inst[r]].from = x.from
      BY <2>2, <2>5 DEF ProcessOK, ImplsOurs, Here
    <3>. QED  BY <2>1, <3>1 DEF Pending
  <2>7. ProposalsNamed'
    <3>1. ASSUME NEW p \in proposals', NEW a \in p
          PROVE  a = Outside \/ (a \in 1 .. Len(chain["main"]) /\ chain["main"][a].status # "pending")
      <4>1. CASE p \in proposals
        BY <3>1, <4>1 DEF ProcessOK, ProposalsNamed
      <4>2. CASE p = {inst[r] : r \in x.impls}
        BY <2>6, <3>1, <4>2
      <4>. QED  BY <2>1, <4>1, <4>2
    <3>. QED  BY <2>1, <3>1 DEF ProposalsNamed
  <2>8. FactsNow' = FactsNow /\ ImplsOurs' /\ ChainShape(chain)'
    BY <2>1 DEF ProcessOK, FactsNow, FactHolds, Here, ImplsOurs, ChainShape
  <2>9. ScriptFits'
    <3>1. Goal(task) \subseteq Goal(task)
      OBVIOUS
    <3>2. Fits(Tail(todo), FactsNow, Goal(task), Signer(flags))
      BY <2>3, <2>4, <3>1, Weakened
    <3>. QED  BY <2>1, <2>8, <3>2 DEF ScriptFits, Done
  <2>10. ProcessTypes'
    BY <2>1 DEF ProcessOK, ProcessTypes, Done
  <2>. QED  BY <2>7, <2>8, <2>9, <2>10 DEF ProcessOK
<1>. QED  BY <1>1, <1>2

\* A nested task: its script goes first, and nothing is known after it.
LEMMA RunKeeps ==
  ASSUME ProcessOK, Run
  PROVE  ProcessOK'
<1>. USE DEF At, process, world, verifyVars, environment
<1>. DEFINE x == Head(todo)
<1>1. outcome = "running" /\ todo # <<>> /\ x.op = "run"
  BY DEF Run
<1>2. FitStep(x, Signer(flags)) /\ Fits(Tail(todo), After(FactsNow, x), Goal(task), Signer(flags))
  BY <1>1, FirstStep DEF ProcessOK, ScriptFits
<1>3. DOMAIN LoadedTasks(x.flags) = TaskNames
  BY DEF LoadedTasks
<1>4. CASE x.task \in TaskNames
  <2>. DEFINE script == LoadedTasks(x.flags)[x.task]
  <2>1. /\ todo' = script \o Tail(todo)
        /\ UNCHANGED <<outcome, task, flags, dre, secrets, runs, inst, chain, proposals, db, network>>
    BY <1>3, <1>4 DEF Run
  <2>2. x.flags \in Flags /\ Signer(x.flags) = Signer(flags)
    BY <1>1, <1>2, <1>4 DEF FitStep
  <2>3. Fits(script, {}, Goal(x.task), Signer(x.flags))
    BY <1>4, <2>2, LoadedTasksFit
  <2>4. After(FactsNow, x) = {}
    BY <1>1, GivesNothing DEF After, Breaks
  <2>. HIDE DEF script, x
  <2>5. Fits(script, FactsNow, {}, Signer(flags))
    <3>1. {} \subseteq FactsNow /\ {} \subseteq Goal(x.task)
      OBVIOUS
    <3>2. Fits(script, {}, Goal(x.task), Signer(flags))
      BY <2>2, <2>3
    <3>. QED  BY <3>1, <3>2, Weakened
  <2>6. Fits(script \o Tail(todo), FactsNow, Goal(task), Signer(flags))
    BY <1>2, <2>4, <2>5, Sequenced
  <2>7. FactsNow' = FactsNow /\ ImplsOurs' /\ ProposalsNamed' /\ ChainShape(chain')
    BY <2>1, AlikeKeeps, SameIsAlike DEF ProcessOK
  <2>8. ScriptFits' /\ ProcessTypes'
    BY <1>1, <2>1, <2>6, <2>7 DEF ProcessOK, ScriptFits, ProcessTypes
  <2>. QED  BY <2>7, <2>8 DEF ProcessOK
<1>5. CASE x.task \notin TaskNames
  <2>1. Abort("unknownTask")
    BY <1>3, <1>5 DEF Run
  <2>. QED  BY <2>1, AbortKeeps
<1>. QED  BY <1>4, <1>5

LEMMA StartKeeps ==
  ASSUME ProcessOK, Start
  PROVE  ProcessOK'
<1>1. PICK t \in Tasks[runs + 1] : \E p \in FlagsOf(t) :
        task' = t /\ todo' = LoadedTasks(p)[t] /\ flags' = p
  BY DEF Start
<1>2. flags' \in FlagsOf(t) /\ flags' \in Flags /\ task' = t /\ todo' = LoadedTasks(flags')[t]
  BY <1>1 DEF FlagsOf
<1>3. runs + 1 \in 1 .. Len(Tasks) /\ runs' = runs + 1
  <2>1. runs \in 0 .. Len(Tasks) /\ Len(Tasks) \in Nat /\ runs < Len(Tasks) /\ runs' = runs + 1
    BY DeploymentAssumption, LenProperties DEF Start, ProcessOK, ProcessTypes
  <2>. QED  BY <2>1
<1>4. t \in TaskNames
  <2>1. Tasks[runs + 1] \in SUBSET TaskNames
    BY <1>3, DeploymentAssumption, ElementOfSeq
  <2>. QED  BY <2>1
<1>5. /\ dre' = FALSE /\ secrets' \in BOOLEAN /\ inst' = [r \in Roles |-> 0]
      /\ outcome' = "running" /\ network' \in ConfiguredNetworks
      /\ chain' = [chain EXCEPT !["hardhat"] = <<>>] /\ UNCHANGED <<proposals, db>>
  BY DEF Start, ConfiguredNetworks
<1>6. ScriptFits'
  <2>1. Fits(todo', {}, Goal(task'), Signer(flags'))
    BY <1>2, <1>4, LoadedTasksFit
  <2>2. {} \subseteq FactsNow' /\ Goal(task') \subseteq Goal(task')
    OBVIOUS
  <2>3. Fits(todo', FactsNow', Goal(task'), Signer(flags'))
    BY <2>1, <2>2, Weakened
  <2>. QED  BY <2>3 DEF ScriptFits
<1>7. ImplsOurs'
  <2>1. ImplRoles \subseteq Roles
    BY DEF ImplRoles, Roles
  <2>. QED  BY <1>5, <2>1 DEF ImplsOurs
<1>8. chain'["hardhat"] = <<>> /\ chain'["main"] = chain["main"]
      /\ chain' = [n \in ConfiguredNetworks |-> chain'[n]]
  BY <1>5, NetworksDiffer DEF ProcessOK, ChainShape
<1>9. ChainShape(chain')
  <2>1. <<>> \in Seq(Range(<<>>)) /\ Len(<<>>) <= MaxContracts /\ 1 .. Len(<<>>) = {}
    BY MaxIsNat
  <2>. QED  BY <1>8, <2>1, NetworksDiffer DEF ProcessOK, ChainShape
<1>10. ProposalsNamed'
  BY <1>5, <1>8 DEF ProcessOK, ProposalsNamed
<1>11. ProcessTypes'
  <2>1. inst' \in [Roles -> 0 .. Outside]
    BY <1>5, MaxIsNat
  <2>2. runs' \in 0 .. Len(Tasks)
    BY <1>3, DeploymentAssumption, LenProperties
  <2>. QED  BY <1>2, <1>4, <1>5, <2>1, <2>2 DEF ProcessOK, ProcessTypes
<1>. QED  BY <1>6, <1>7, <1>9, <1>10, <1>11 DEF ProcessOK

\* The end of a process, and an attempt to verify, leave all this alone.
LEMMA EndsKeep ==
  ASSUME ProcessOK, Crash \/ Finish \/ Verifying
  PROVE  ProcessOK'
<1>. USE DEF process, world, verifyVars, environment
<1>1. UNCHANGED <<task, flags, dre, secrets, runs, inst, chain, proposals, db, network>>
  BY DEF Crash, Finish, Verifying, VerifyStep, delay, RunTask, GiveUp
<1>2. FactsNow' = FactsNow /\ ImplsOurs' /\ ProposalsNamed' /\ ChainShape(chain')
  BY <1>1, AlikeKeeps, SameIsAlike DEF ProcessOK
<1>3. CASE Crash
  BY <1>1, <1>2, <1>3 DEF Crash, ProcessOK, ProcessTypes, ScriptFits
<1>4. CASE Finish
  BY <1>1, <1>2, <1>4 DEF Finish, ProcessOK, ProcessTypes, ScriptFits
<1>5. CASE Verifying
  BY <1>1, <1>2, <1>5 DEF Verifying, ProcessOK, ProcessTypes, ScriptFits
<1>. QED  BY <1>3, <1>4, <1>5

LEMMA ProcessKept ==
  ASSUME ProcessOK, [Next]_vars
  PROVE  ProcessOK'
<1>1. CASE Start
  BY <1>1, StartKeeps
<1>2. CASE Crash \/ Finish \/ Verifying
  BY <1>2, EndsKeep
<1>3. CASE MineNext
  BY <1>3, MineKeeps DEF MineNext
<1>4. CASE ProcessStep
  BY <1>4, EndsKeep, QuietKeeps, ProxyStepsKeep, LookupGivenKeep, RegisterKeeps, SendKeeps,
     CreateKeeps, RunKeeps DEF ProcessStep
<1>5. CASE UNCHANGED vars
  <2>. USE DEF vars, verifyVars, environment
  <2>1. FactsNow' = FactsNow /\ ImplsOurs' /\ ProposalsNamed' /\ ChainShape(chain')
    BY <1>5, AlikeKeeps, SameIsAlike DEF ProcessOK
  <2>. QED  BY <1>5, <2>1 DEF ProcessOK, ProcessTypes, ScriptFits
<1>. QED  BY <1>1, <1>2, <1>3, <1>4, <1>5 DEF Next

------------------------------------------------------------------------------
(* The call of verifyContract *)

LEMMA CallKept ==
  ASSUME CallInTask, [Next]_vars
  PROVE  CallInTask'
<1>. USE DEF CallInTask, verifyVars
<1>1. CASE Start
  BY <1>1 DEF Start
<1>2. CASE Crash
  BY <1>2 DEF Crash
<1>3. CASE MineNext
  BY <1>3 DEF MineNext, Mine
<1>4. CASE ProcessStep
  <2>1. CASE Finish
    BY <2>1 DEF Finish
  <2>2. CASE Verifying
    BY <2>2 DEF Verifying, VerifyStep, delay, RunTask, GiveUp
  <2>3. ASSUME outcome = "running", vpc = "returned", vpc' = vpc \/ outcome' = outcome
        PROVE  CallInTask'
    BY <2>3
  <2>. USE DEF At, Abort, Done
  <2>4. CASE SetDRE \/ UseDRE \/ CheckVerification \/ RequireParams \/ RequireImpls
    BY <2>3, <2>4 DEF SetDRE, UseDRE, CheckVerification, RequireParams, RequireImpls
  <2>5. CASE Defender \/ Given \/ Run \/ Encode \/ Lookup
    BY <2>3, <2>5 DEF Defender, Given, Run, Encode, Lookup
  <2>6. CASE Send \/ Wait
    BY <2>3, <2>6 DEF Send, Wait
  <2>7. CASE ProxyInit \/ Upgrade
    BY <2>3, <2>7 DEF ProxyInit, Upgrade
  <2>8. CASE Approve \/ Create \/ Register
    BY <2>3, <2>8 DEF Approve, Create, Register
  <2>9. CASE Verify
    BY <2>3, <2>9 DEF Verify
  <2>. QED  BY <1>4, <2>1, <2>2, <2>4, <2>5, <2>6, <2>7, <2>8, <2>9 DEF ProcessStep
<1>5. CASE UNCHANGED vars
  BY <1>5 DEF vars
<1>. QED  BY <1>1, <1>2, <1>3, <1>4, <1>5 DEF Next

LEMMA EnvironmentTyped ==
  ASSUME Next, etherscanKey \in BOOLEAN
  PROVE  etherscanKey' \in BOOLEAN
<1>. USE DEF verifyVars, environment
<1>1. CASE Start
  BY <1>1 DEF Start
<1>2. CASE Crash
  BY <1>2 DEF Crash
<1>3. CASE MineNext
  BY <1>3 DEF MineNext, Mine
<1>4. CASE ProcessStep
  <2>. USE DEF Abort, Done
  <2>1. CASE Finish \/ SetDRE \/ UseDRE \/ CheckVerification \/ RequireParams \/ RequireImpls
    BY <2>1 DEF Finish, SetDRE, UseDRE, CheckVerification, RequireParams, RequireImpls
  <2>2. CASE Defender \/ Given \/ Run \/ Encode \/ Lookup
    BY <2>2 DEF Defender, Given, Run, Encode, Lookup
  <2>3. CASE Send \/ Wait
    BY <2>3 DEF Send, Wait
  <2>4. CASE ProxyInit \/ Upgrade
    BY <2>4 DEF ProxyInit, Upgrade
  <2>5. CASE Approve \/ Create \/ Register
    BY <2>5 DEF Approve, Create, Register
  <2>6. CASE Verify
    BY <2>6 DEF Verify, verifyContract
  <2>7. CASE Verifying
    BY <2>7 DEF Verifying, VerifyStep, delay, RunTask, GiveUp
  <2>. QED  BY <1>4, <2>1, <2>2, <2>3, <2>4, <2>5, <2>6, <2>7 DEF ProcessStep
<1>. QED  BY <1>1, <1>2, <1>3, <1>4 DEF Next

LEMMA VerifyStepTyped ==
  ASSUME VerificationTypeOK, NEW found, VerifyStep(found)
  PROVE  VerificationTypeOK'
<1>1. times \in 0 .. Attempts /\ Attempts = 4
  BY DEF VerificationTypeOK, Attempts
<1>2. CASE delay
  BY <1>2 DEF delay, VerificationTypeOK, environment, explorer
<1>3. CASE GiveUp
  BY <1>3 DEF GiveUp, Return, Cleanup, VerificationTypeOK, environment, explorer, Results
<1>4. CASE RunTask(found) /\ RunVerified(found)
  BY <1>1, <1>4 DEF RunTask, RunVerified, Publish, Return, Cleanup, VerificationTypeOK, environment,
                    Results
<1>5. CASE RunTask(found) /\ RunRejected(found, relatedSources /\ times > 1)
  <2>1. times >= 1 /\ UNCHANGED <<etherscanKey, network, address>>
    BY <1>5 DEF RunTask, environment
  <2>2. PICK error \in Answers(address, found) \ {"verified"} :
          /\ \/ UNCHANGED <<published, publishedAt>>
             \/ error \in OtherErrors /\ "verified" \in Answers(address, found) /\ Publish
          /\ lost' = IF error \in OtherErrors /\ publishedAt' # 0 THEN Min({lost + 1, Attempts}) ELSE lost
          /\ Catch(error, relatedSources /\ times > 1)
    BY <1>5 DEF RunRejected
  <2>3. published' \subseteq Addresses /\ publishedAt' \in 0 .. Attempts
    BY <1>1, <2>2 DEF Publish, VerificationTypeOK
  <2>4. lost' \in 0 .. Attempts
    <3>1. lost \in 0 .. Attempts /\ lost + 1 \in Nat /\ Attempts \in Nat
      BY <1>1 DEF VerificationTypeOK
    <3>2. CASE lost + 1 <= Attempts
      <4>1. Min({lost + 1, Attempts}) = lost + 1
        BY <3>1, <3>2, SmallerOfTwo
      <4>. QED  BY <1>1, <2>2, <3>1, <3>2, <4>1
    <3>3. CASE Attempts <= lost + 1
      <4>1. Min({Attempts, lost + 1}) = Attempts /\ {Attempts, lost + 1} = {lost + 1, Attempts}
        BY <3>1, <3>3, SmallerOfTwo
      <4>. QED  BY <1>1, <2>2, <3>1, <4>1
    <3>. QED  BY <1>1, <3>1, <3>2, <3>3
  <2>5. /\ vpc' \in {"delay", "run", "returned"} /\ relatedSources' \in BOOLEAN
        /\ result' \in Results /\ tempFiles' \subseteq Addresses
    BY <2>2 DEF Catch, Return, Retry, VerificationTypeOK, Results
  <2>6. times' = times \/ times' = times - 1
    BY <2>2 DEF Catch, Return, Retry
  <2>7. times' \in 0 .. Attempts
    BY <1>1, <2>1, <2>6
  <2>. QED  BY <2>1, <2>3, <2>4, <2>5, <2>7 DEF VerificationTypeOK
<1>. QED  BY <1>2, <1>3, <1>4, <1>5 DEF VerifyStep, RunTask

\* A contract to verify is one of the chain's.
LEMMA VerificationTyped ==
  ASSUME VerificationTypeOK, ProcessOK, ProcessOK', Next
  PROVE  VerificationTypeOK'
<1>1. etherscanKey' \in BOOLEAN /\ network' \in Networks
  BY EnvironmentTyped, NetworksDiffer DEF VerificationTypeOK, ProcessOK, ProcessTypes
<1>2. CASE Verify /\ verifyContract(inst[Head(todo).role])
  <2>. DEFINE a == inst[Head(todo).role]
  <2>1. a \in 1 .. Len(chain[network]) /\ network \in ConfiguredNetworks
    BY <1>2, NeedsHold DEF Verify, At, ProcessOK, ProcessTypes
  <2>2. Len(chain[network]) \in Nat /\ Len(chain[network]) <= MaxContracts
    BY <2>1, LenProperties DEF ProcessOK, ChainShape
  <2>3. a \in Addresses
    BY <2>1, <2>2, MaxIsNat
  <2>. HIDE DEF a
  <2>4. verifyContract(a)
    BY <1>2 DEF a
  <2>5. address' \in Addresses /\ published' \subseteq Addresses /\ tempFiles' \subseteq Addresses
    BY <2>3, <2>4 DEF verifyContract, VerificationTypeOK
  <2>6. times' \in 0 .. Attempts /\ publishedAt' \in 0 .. Attempts /\ lost' \in 0 .. Attempts
    BY <2>4 DEF verifyContract, VerificationTypeOK, Attempts
  <2>7. /\ vpc' \in {"delay", "run", "returned"} /\ relatedSources' \in BOOLEAN
        /\ result' \in Results
    BY <2>4 DEF verifyContract, VerificationTypeOK, Results
  <2>. QED  BY <1>1, <2>5, <2>6, <2>7 DEF VerificationTypeOK
<1>3. CASE VerifyStep(HasCode(address))
  BY <1>3, VerifyStepTyped
<1>4. CASE /\ vpc' = "returned" /\ result' = "none"
           /\ UNCHANGED <<address, times, relatedSources, tempFiles, explorer>>
  BY <1>1, <1>4 DEF VerificationTypeOK, explorer, Results
<1>5. CASE UNCHANGED <<call, tempFiles, explorer>>
  BY <1>1, <1>5 DEF VerificationTypeOK, call, explorer
<1>. QED  BY <1>2, <1>3, <1>4, <1>5, RestKeepsVerification

------------------------------------------------------------------------------
(* The theorems *)

LEMMA InitHolds == Init => DeploymentIInv
<1>. SUFFICES ASSUME Init PROVE DeploymentIInv
  OBVIOUS
<1>1. AttemptsCounted /\ CallInTask
  BY DEF Init, VerifyInit, AttemptsCounted, ExhaustedOnlyUnnoticed, CallInTask
<1>2. VerificationTypeOK
  <2>1. address \in Addresses
    BY DEF Init, VerifyInit
  <2>2. etherscanKey \in BOOLEAN /\ network \in Networks
    BY DEF Init, Networks
  <2>3. vpc \in {"delay", "run", "returned"} /\ times \in 0 .. Attempts /\ result \in Results
    BY DEF Init, VerifyInit, Attempts, Results
  <2>5. relatedSources \in BOOLEAN
    BY DEF Init, VerifyInit
  <2>4. /\ tempFiles \subseteq Addresses /\ published \subseteq Addresses
        /\ publishedAt \in 0 .. Attempts /\ lost \in 0 .. Attempts
    BY DEF Init, VerifyInit, Attempts
  <2>. QED  BY <2>1, <2>2, <2>3, <2>4, <2>5 DEF VerificationTypeOK
<1>3. ChainShape(chain)
  <2>1. <<>> \in Seq(Range(<<>>)) /\ Len(<<>>) <= MaxContracts /\ 1 .. Len(<<>>) = {}
    BY MaxIsNat
  <2>. QED  BY <2>1 DEF Init, ChainShape
<1>4. ImplsOurs /\ ProposalsNamed /\ ScriptFits
  BY DEF Init, ImplsOurs, ImplRoles, Roles, ProposalsNamed, ScriptFits
<1>5. ProcessTypes
  <2>1. inst \in [Roles -> 0 .. Outside] /\ db \in [ConfiguredNetworks -> [Keys -> 0 .. MaxContracts]]
    BY MaxIsNat DEF Init
  <2>2. runs \in 0 .. Len(Tasks)
    BY DeploymentAssumption, LenProperties DEF Init
  <2>3. flags \in Flags /\ network \in ConfiguredNetworks
    BY FlagsSigner DEF Init, ConfiguredNetworks, Flags, NoFlags
  <2>. QED  BY <2>1, <2>2, <2>3 DEF Init, ProcessTypes
<1>. QED  BY <1>1, <1>2, <1>3, <1>4, <1>5 DEF DeploymentIInv, ProcessOK

(***************************************************************************)
(* Deployment: in every state the rest of the script of the process fits   *)
(* what is known of its contract instances, an implementation was given or *)
(* sent by the account that will propose it, a proposal names nothing that *)
(* is pending, and a call of verifyContract runs within a task only.       *)
(***************************************************************************)
THEOREM DeploymentInductiveInvariant == Spec => []DeploymentIInv
<1>1. DeploymentIInv /\ [Next]_vars => DeploymentIInv'
  <2>. SUFFICES ASSUME DeploymentIInv, [Next]_vars PROVE DeploymentIInv'
    OBVIOUS
  <2>1. ProcessOK' /\ CallInTask' /\ AttemptsCounted'
    BY ProcessKept, CallKept, AttemptsKept DEF DeploymentIInv
  <2>2. VerificationTypeOK'
    <3>1. CASE Next
      BY <2>1, <3>1, VerificationTyped DEF DeploymentIInv
    <3>2. CASE UNCHANGED vars
      BY <3>2 DEF DeploymentIInv, VerificationTypeOK, vars, verifyVars, environment, explorer
    <3>. QED  BY <3>1, <3>2
  <2>. QED  BY <2>1, <2>2 DEF DeploymentIInv
<1>. QED  BY <1>1, InitHolds, PTL DEF Spec

(***************************************************************************)
(* Deployment: every variable has its type; no chain outgrows its bound, no *)
(* process has steps left or an attempt under way once it has ended.       *)
(***************************************************************************)
THEOREM DeploymentTypeCorrect == Spec => []DeploymentTypeOK
<1>1. DeploymentIInv => DeploymentTypeOK
  BY DEF DeploymentIInv, DeploymentTypeOK, ProcessOK, ProcessTypes, CallInTask, ChainShape
<1>. QED  BY <1>1, DeploymentInductiveInvariant, PTL

LEMMA PositionNotZero == \A n \in Nat : \A i \in 1 .. n : i # 0
OBVIOUS

\* What the facts of a goal say of an entry of the file
LEMMA ResultHolds ==
  ASSUME NEW name, NEW kind \in Kinds, NEW role \in Roles, <<name, "">> \in Keys,
         Len(chain[network]) \in Nat,
         Result(name, kind, role) \subseteq FactsNow
  PROVE  LET a == db[network][<<name, "">>]
         IN  a # 0 /\ Here(a).status = "mined" /\ Here(a).kind = kind
<1>. DEFINE fact(sort) == [sort |-> sort, role |-> role, kind |-> kind, key |-> <<name, "">>]
<1>1. \A sort \in {"kind", "mined", "stored"} : fact(sort) \in Result(name, kind, role)
  BY DEF Result, Own, KindOf, Mined, Stored, Facts
<1>2. \A sort \in {"kind", "mined", "stored"} : FactHolds(fact(sort))
  BY <1>1 DEF FactsNow
<1>3. /\ inst[role] \in 1 .. Len(chain[network]) /\ Here(inst[role]).kind = kind
      /\ Here(inst[role]).status = "mined" /\ db[network][<<name, "">>] = inst[role]
  BY <1>2 DEF FactHolds
<1>. QED  BY <1>3, PositionNotZero

(***************************************************************************)
(* Deployment: a deployment task that ends well leaves the entries of the  *)
(* file that its users look up naming contracts of the right kind, mined on *)
(* the chain: whatever earlier processes left there, however long its own  *)
(* transactions took, with verification or without.                        *)
(***************************************************************************)
THEOREM FinishedIsLive == Spec => []FinishedMeansLive
<1>1. DeploymentIInv => FinishedMeansLive
  <2>. SUFFICES ASSUME DeploymentIInv, outcome = "finished", task \in DOMAIN Deployed,
                       NEW e \in Deployed[task]
                PROVE  LET a == db[network][<<e[1], "">>]
                       IN  a # 0 /\ Here(a).status = "mined" /\ Here(a).kind = e[2]
    BY DEF FinishedMeansLive
  <2>1. todo = <<>> /\ Fits(todo, FactsNow, Goal(task), Signer(flags))
    BY DEF DeploymentIInv, ProcessOK, ProcessTypes, ScriptFits
  <2>2. Goal(task) \subseteq FactsNow
    <3>1. Len(<<>>) + 1 = 1
      OBVIOUS
    <3>2. \A f \in Goal(task) : Known(f, <<>>, 1, FactsNow)
      BY <2>1, <3>1 DEF Fits
    <3>. QED  BY <3>2 DEF Known
  <2>3. Len(chain[network]) \in Nat
    BY LenProperties DEF DeploymentIInv, ProcessOK, ProcessTypes, ChainShape
  <2>4. ASSUME NEW name \in Kinds \cup {"Staked REX"}, NEW kind \in Kinds,
               NEW role \in {"impl", "proxy", "instance"},
               Result(name, kind, role) \subseteq Goal(task)
        PROVE  LET a == db[network][<<name, "">>]
               IN  a # 0 /\ Here(a).status = "mined" /\ Here(a).kind = kind
    <3>1. role \in Roles /\ <<name, "">> \in Keys
      BY DEF Roles, Keys
    <3>. QED  BY <2>2, <2>3, <2>4, <3>1, ResultHolds
  <2>5. DOMAIN Deployed = {"deploy-StakedREXV3", "deploy-RollexStakingHelper",
                           "deploy-StakeUIHelper", "deploy-StakedTokenDataProvider"}
    BY DEF Deployed
  <2>6. \E name \in Kinds \cup {"Staked REX"}, kind \in Kinds, role \in {"impl", "proxy", "instance"} :
          e = <<name, kind>> /\ Result(name, kind, role) \subseteq Goal(task)
    <3>1. CASE task = "deploy-StakedREXV3"
      <4>1. \/ e = <<"StakedREXV3", "InitializableAdminUpgradeabilityProxy">>
            \/ e = <<"Staked REX", "StakedREXV3">>
        BY <3>1 DEF Deployed
      <4>. QED  BY <3>1, <4>1 DEF Goal, Kinds
    <3>2. CASE task = "deploy-RollexStakingHelper"
      <4>1. e = <<"RollexStakingHelper", "RollexStakingHelper">>
        BY <3>2 DEF Deployed
      <4>. QED  BY <3>2, <4>1 DEF Goal, Kinds
    <3>3. CASE task = "deploy-StakeUIHelper"
      <4>1. e = <<"StakeUIHelper", "StakeUIHelper">>
        BY <3>3 DEF Deployed
      <4>. QED  BY <3>3, <4>1 DEF Goal, Kinds
    <3>4. CASE task = "deploy-StakedTokenDataProvider"
      <4>1. e = <<"StakedTokenDataProvider", "StakedTokenDataProvider">>
        BY <3>4 DEF Deployed
      <4>. QED  BY <3>4, <4>1 DEF Goal, Kinds
    <3>. QED  BY <2>5, <3>1, <3>2, <3>3, <3>4
  <2>7. PICK name \in Kinds \cup {"Staked REX"}, kind \in Kinds, role \in {"impl", "proxy", "instance"} :
          e = <<name, kind>> /\ Result(name, kind, role) \subseteq Goal(task)
    BY <2>6
  <2>8. e[1] = name /\ e[2] = kind
    BY <2>7
  <2>. QED  BY <2>4, <2>7, <2>8
<1>. QED  BY <1>1, DeploymentInductiveInvariant, PTL

(***************************************************************************)
(* Deployment: governance proposals name implementations that are on the   *)
(* chain, although nobody waits for their deployment: the deployer and the *)
(* proposer are one account, and its transactions are mined in order.      *)
(***************************************************************************)
THEOREM ProposalsAfterImplementations == Spec => []ProposalOnlyAfterImplementation
<1>1. DeploymentIInv => ProposalOnlyAfterImplementation
  BY DEF DeploymentIInv, ProcessOK, ProposalsNamed, ProposalOnlyAfterImplementation
<1>. QED  BY <1>1, DeploymentInductiveInvariant, PTL

------------------------------------------------------------------------------
(* The test environment.  A logic of the same form, for the script that    *)
(* initializes and upgrades proxies.  A fact says of a contract, named by   *)
(* an instance of the process or by an entry of the file, of which kind it  *)
(* is, whose revision it runs, that the vault has approved it.  Two names   *)
(* may stand for one proxy, so an upgrade makes all revisions uncertain; an *)
(* initialization does not, for it succeeds on no proxy that runs anything. *)

IAUP == "InitializableAdminUpgradeabilityProxy"

SetupFacts == [store : {"inst", "db"}, role : Roles, key : Keys,
               what : {"kind", "runs", "approved"}, kind : Kinds]

Place(f) == IF f.store = "inst" THEN inst[f.role] ELSE db[network][f.key]

SetupHolds(f) ==
  /\ Place(f) \in 1 .. Len(chain[network])
  /\ f.what = "kind" => Here(Place(f)).kind = f.kind
  /\ f.what = "runs" => Here(Place(f)).logic # 0 /\ Here(Place(f)).revision = Revision[f.kind]
  /\ f.what = "approved" => Here(Place(f)).approved

SetupNow == {f \in SetupFacts : SetupHolds(f)}

\* What the step x says of f, when the facts R hold before it
Learns(R, x, f) ==
  \/ /\ x.op = "send" /\ f.store = "inst" /\ f.role = x.role
     /\ f.what = "kind" /\ f.kind = x.kind
  \/ /\ x.op = "register" /\ f.store = "db" /\ f.key = x.key
     /\ [f EXCEPT !.store = "inst", !.role = x.role] \in R
  \/ /\ x.op = "lookup" /\ f.store = "inst" /\ f.role = x.role
     /\ [f EXCEPT !.store = "db", !.key = x.key] \in R
  \/ /\ x.op \in {"proxyInit", "upgrade"} /\ f.store = "inst" /\ f.role = x.role
     /\ f.what = "runs"
     /\ [f EXCEPT !.what = "kind", !.kind = IAUP] \in R
     /\ [f EXCEPT !.what = "kind", !.role = x.logic] \in R
  \/ /\ x.op = "approve" /\ f.store = "inst" /\ f.role = x.role
     /\ f.what = "approved"
     /\ [f EXCEPT !.what = "kind", !.kind = IAUP] \in R

Loses(x, f) ==
  \/ x.op \in {"send", "lookup"} /\ f.store = "inst" /\ f.role = x.role
  \/ x.op = "register" /\ f.store = "db" /\ f.key = x.key
  \/ x.op = "upgrade" /\ f.what = "runs"

Learned(R, x) == {f \in SetupFacts : Learns(R, x, f) \/ (f \in R /\ ~Loses(x, f))}

SetupOps == {"setDRE", "send", "register", "wait", "encode", "proxyInit", "approve", "upgrade",
             "lookup"}

\* An outline: the facts between the steps, from some of R to those of Q
Leads(s, R, Q) ==
  /\ s \in Seq(Range(s))
  /\ \A i \in 1 .. Len(s) : s[i].op \in SetupOps
  /\ \E A \in [0 .. Len(s) -> SUBSET SetupFacts] :
       /\ A[0] \subseteq R
       /\ \A i \in 1 .. Len(s) : A[i] \subseteq Learned(A[i - 1], s[i])
       /\ Q \subseteq A[Len(s)]

LEMMA MoreLearned ==
  ASSUME NEW R, NEW R2, NEW x, R \subseteq R2
  PROVE  Learned(R, x) \subseteq Learned(R2, x)
BY DEF Learned, Learns

LEMMA LeadsWeakened ==
  ASSUME NEW s, NEW R, NEW R2, NEW Q, NEW Q2, Leads(s, R2, Q2), R2 \subseteq R, Q \subseteq Q2
  PROVE  Leads(s, R, Q)
BY DEF Leads

LEMMA LeadsOn ==
  ASSUME NEW s, NEW t, NEW R, NEW Q, NEW P, Leads(s, R, Q), Leads(t, Q, P)
  PROVE  Leads(s \o t, R, P)
<1>. DEFINE S == Range(s) \cup Range(t)
            n == Len(s)
            m == Len(t)
            u == s \o t
<1>1. s \in Seq(S) /\ t \in Seq(S)
  BY SeqMonotonic DEF Leads
<1>2. n \in Nat /\ m \in Nat
  BY <1>1, LenProperties
<1>3. /\ u \in Seq(S) /\ Len(u) = n + m
      /\ \A i \in 1 .. n + m : u[i] = IF i <= n THEN s[i] ELSE t[i - n]
  BY <1>1, ConcatProperties
<1>4. u \in Seq(Range(u))
  BY <1>3, SeqOfItsRange
<1>5. PICK A \in [0 .. n -> SUBSET SetupFacts] :
        /\ A[0] \subseteq R
        /\ \A i \in 1 .. n : A[i] \subseteq Learned(A[i - 1], s[i])
        /\ Q \subseteq A[n]
  BY DEF Leads
<1>6. PICK B \in [0 .. m -> SUBSET SetupFacts] :
        /\ B[0] \subseteq Q
        /\ \A i \in 1 .. m : B[i] \subseteq Learned(B[i - 1], t[i])
        /\ P \subseteq B[m]
  BY DEF Leads
<1>7. /\ \A i \in 1 .. n : s[i].op \in SetupOps
      /\ \A i \in 1 .. m : t[i].op \in SetupOps
  BY DEF Leads
<1>. HIDE DEF u, n, m
<1>. DEFINE C == [i \in 0 .. n + m |-> IF i <= n THEN A[i] ELSE B[i - n]]
<1>8. C \in [0 .. n + m -> SUBSET SetupFacts]
  <2>1. \A i \in 0 .. n + m : IF i <= n THEN i \in 0 .. n ELSE i - n \in 0 .. m
    BY <1>2
  <2>. QED  BY <2>1
<1>9. C[0] \subseteq R
  <2>1. 0 \in 0 .. n + m /\ 0 <= n
    BY <1>2
  <2>. QED  BY <1>5, <2>1
<1>10. ASSUME NEW i \in 1 .. n + m
       PROVE  u[i].op \in SetupOps /\ C[i] \subseteq Learned(C[i - 1], u[i])
  <2>1. i \in 0 .. n + m /\ i - 1 \in 0 .. n + m
    BY <1>2
  <2>2. CASE i <= n
    <3>1. i \in 1 .. n /\ i - 1 <= n /\ u[i] = s[i]
      BY <1>2, <1>3, <2>2
    <3>2. C[i] = A[i] /\ C[i - 1] = A[i - 1]
      BY <2>1, <2>2, <3>1
    <3>. HIDE DEF C
    <3>. QED  BY <1>5, <1>7, <3>1, <3>2
  <2>3. CASE ~(i <= n) /\ i - 1 <= n
    <3>1. i - 1 = n /\ i - n = 1 /\ 1 \in 1 .. m /\ 1 - 1 = 0 /\ u[i] = t[1]
      BY <1>2, <1>3, <2>3
    <3>2. C[i] = B[1] /\ C[i - 1] = A[n]
      BY <2>1, <2>3, <3>1
    <3>. HIDE DEF C
    <3>3. B[0] \subseteq A[n] /\ B[1] \subseteq Learned(B[0], t[1]) /\ t[1].op \in SetupOps
      BY <1>5, <1>6, <1>7, <3>1
    <3>4. Learned(B[0], t[1]) \subseteq Learned(A[n], t[1])
      BY <3>3, MoreLearned
    <3>. QED  BY <3>1, <3>2, <3>3, <3>4
  <2>4. CASE ~(i <= n) /\ ~(i - 1 <= n)
    <3>1. i - n \in 1 .. m /\ (i - 1) - n = (i - n) - 1 /\ u[i] = t[i - n]
      BY <1>2, <1>3, <2>4
    <3>2. C[i] = B[i - n] /\ C[i - 1] = B[(i - n) - 1]
      BY <2>1, <2>4, <3>1
    <3>. HIDE DEF C
    <3>. QED  BY <1>6, <1>7, <3>1, <3>2
  <2>. QED  BY <2>2, <2>3, <2>4
<1>11. P \subseteq C[n + m]
  <2>1. CASE m = 0
    <3>1. n + m \in 0 .. n + m /\ n + m <= n /\ n + m = n
      BY <1>2, <2>1
    <3>2. C[n + m] = A[n]
      BY <3>1
    <3>. HIDE DEF C
    <3>. QED  BY <1>5, <1>6, <2>1, <3>2
  <2>2. CASE m # 0
    <3>1. n + m \in 0 .. n + m /\ ~(n + m <= n) /\ (n + m) - n = m
      BY <1>2, <2>2
    <3>2. C[n + m] = B[m]
      BY <3>1
    <3>. HIDE DEF C
    <3>. QED  BY <1>6, <3>2
  <2>. QED  BY <2>1, <2>2
<1>. HIDE DEF C
<1>. QED  BY <1>3, <1>4, <1>8, <1>9, <1>10, <1>11 DEF Leads, u

LEMMA LeadsOneStep ==
  ASSUME NEW x, x.op \in SetupOps, NEW R \in SUBSET SetupFacts
  PROVE  Leads(<<x>>, R, Learned(R, x))
<1>. DEFINE s == <<x>>
            A == [i \in 0 .. 1 |-> IF i = 0 THEN R ELSE Learned(R, x)]
<1>1. s \in Seq({x}) /\ Len(s) = 1 /\ s[1] = x
  OBVIOUS
<1>2. s \in Seq(Range(s))
  BY <1>1, SeqOfItsRange
<1>3. A \in [0 .. 1 -> SUBSET SetupFacts] /\ A[0] = R /\ A[1] = Learned(R, x)
  BY DEF Learned
<1>4. \A i \in 1 .. 1 : i = 1 /\ i - 1 = 0
  OBVIOUS
<1>. HIDE DEF s, A
<1>5. Leads(s, R, Learned(R, x))
  BY <1>1, <1>2, <1>3, <1>4 DEF Leads
<1>. QED  BY <1>5 DEF s

LEMMA LeadsFirst ==
  ASSUME NEW s, NEW R, NEW Q, Leads(s, R, Q), s # <<>>
  PROVE  Head(s).op \in SetupOps /\ Leads(Tail(s), Learned(R, Head(s)), Q)
<1>. DEFINE x == Head(s)
            t == Tail(s)
            n == Len(t)
<1>1. s \in Seq(Range(s))
  BY DEF Leads
<1>2. /\ t \in Seq(Range(s)) /\ n \in Nat /\ Len(s) = n + 1 /\ x = s[1]
      /\ \A i \in 1 .. n : t[i] = s[i + 1]
  BY <1>1, HeadTailProperties, LenProperties
<1>. HIDE DEF x, t, n
<1>3. t \in Seq(Range(t))
  BY <1>2, SeqOfItsRange
<1>4. PICK A \in [0 .. n + 1 -> SUBSET SetupFacts] :
        /\ A[0] \subseteq R
        /\ \A i \in 1 .. n + 1 : A[i] \subseteq Learned(A[i - 1], s[i])
        /\ Q \subseteq A[n + 1]
  BY <1>2 DEF Leads
<1>5. \A i \in 1 .. n + 1 : s[i].op \in SetupOps
  BY <1>2 DEF Leads
<1>. DEFINE B == [i \in 0 .. n |-> A[i + 1]]
<1>6. /\ \A i \in 0 .. n : i + 1 \in 0 .. n + 1
      /\ 0 \in 0 .. n /\ n \in 0 .. n /\ 1 \in 1 .. n + 1 /\ 1 - 1 = 0 /\ 0 + 1 = 1
      /\ \A i \in 1 .. n : i \in 0 .. n /\ i - 1 \in 0 .. n /\ i + 1 \in 1 .. n + 1
                           /\ (i - 1) + 1 = i /\ (i + 1) - 1 = i
  BY <1>2
<1>7. B \in [0 .. n -> SUBSET SetupFacts] /\ B[0] = A[1] /\ B[n] = A[n + 1]
      /\ \A i \in 1 .. n : B[i] = A[i + 1] /\ B[i - 1] = A[i]
  BY <1>6
<1>. HIDE DEF B
<1>8. B[0] \subseteq Learned(R, x)
  <2>1. A[1] \subseteq Learned(A[0], x)
    BY <1>2, <1>4, <1>6
  <2>2. Learned(A[0], x) \subseteq Learned(R, x)
    BY <1>4, MoreLearned
  <2>. QED  BY <1>7, <2>1, <2>2
<1>9. \A i \in 1 .. n : t[i].op \in SetupOps /\ B[i] \subseteq Learned(B[i - 1], t[i])
  BY <1>2, <1>4, <1>5, <1>6, <1>7
<1>10. Leads(t, Learned(R, x), Q)
  BY <1>3, <1>4, <1>7, <1>8, <1>9 DEF Leads, n
<1>11. x.op \in SetupOps
  BY <1>2, <1>5, <1>6
<1>. QED  BY <1>10, <1>11 DEF x, t

------------------------------------------------------------------------------
(* What the steps teach *)

LEMMA LeadsStep ==
  ASSUME NEW x, x.op \in SetupOps, NEW R \in SUBSET SetupFacts, NEW Q, Q \subseteq Learned(R, x)
  PROVE  Leads(<<x>>, R, Q)
<1>1. Leads(<<x>>, R, Learned(R, x)) /\ R \subseteq R
  BY LeadsOneStep
<1>. QED  BY <1>1, LeadsWeakened

LEMMA LeadsNowhere ==
  ASSUME NEW R \in SUBSET SetupFacts
  PROVE  Leads(<<>>, R, R)
<1>. DEFINE A == [i \in 0 .. 0 |-> R]
<1>1. <<>> \in Seq(Range(<<>>)) /\ Len(<<>>) = 0 /\ 1 .. 0 = {}
  OBVIOUS
<1>2. A \in [0 .. 0 -> SUBSET SetupFacts] /\ A[0] = R
  OBVIOUS
<1>. HIDE DEF A
<1>. QED  BY <1>1, <1>2 DEF Leads

Is(r, k) == {f \in SetupFacts : f.store = "inst" /\ f.role = r /\ f.what = "kind" /\ f.kind = k}
Runs(r, k) == {f \in SetupFacts : f.store = "inst" /\ f.role = r /\ f.what = "runs" /\ f.kind = k}
Approved(r) == {f \in SetupFacts : f.store = "inst" /\ f.role = r /\ f.what = "approved"}

\* The proxy r is initialized with a logic of kind k and approved.
Ready(r, k) == Is(r, IAUP) \cup Runs(r, k) \cup Approved(r)

\* The entry of the file names such a proxy.
Entry(key, k) ==
  {f \in SetupFacts :
     /\ f.store = "db" /\ f.key = key
     /\ (f.what = "kind" /\ f.kind = IAUP) \/ (f.what = "runs" /\ f.kind = k) \/ f.what = "approved"}

\* R says nothing of the instance r, nor of the entry key.
Untouched(R, r, key) ==
  \A f \in R : (f.store = "inst" => f.role # r) /\ (f.store = "db" => f.key # key)

LEMMA OtherFact ==
  ASSUME NEW f \in SetupFacts
  PROVE  /\ \A r \in Roles : [f EXCEPT !.store = "inst", !.role = r] \in SetupFacts
         /\ \A key \in Keys : [f EXCEPT !.store = "db", !.key = key] \in SetupFacts
BY DEF SetupFacts

LEMMA IaupKind == IAUP \in Kinds
BY DEF IAUP, Kinds

LEMMA ProxyFact ==
  ASSUME NEW f \in SetupFacts
  PROVE  [f EXCEPT !.what = "kind", !.kind = IAUP] \in SetupFacts
BY IaupKind DEF SetupFacts

LEMMA LogicFact ==
  ASSUME NEW f \in SetupFacts, NEW r \in Roles
  PROVE  [f EXCEPT !.what = "kind", !.role = r] \in SetupFacts
BY DEF SetupFacts

LEMMA SetupQuiet ==
  ASSUME NEW R \in SUBSET SetupFacts
  PROVE  /\ Leads(setDRE, R, R)
         /\ \A role : Leads(wait(role), R, R)
         /\ \A kind, nargs : Leads(encode(kind, nargs), R, R)
         /\ \A steps : Leads(Only(FALSE, steps), R, R)
<1>1. ASSUME NEW x, x.op \in {"setDRE", "wait", "encode"}
      PROVE  Leads(<<x>>, R, R)
  <2>1. R \subseteq Learned(R, x) /\ x.op \in SetupOps
    BY <1>1 DEF Learned, Loses, SetupOps
  <2>. QED  BY <2>1, LeadsStep
<1>2. Leads(setDRE, R, R)
  BY <1>1 DEF setDRE
<1>3. ASSUME NEW role PROVE Leads(wait(role), R, R)
  BY <1>1 DEF wait
<1>4. ASSUME NEW kind, NEW nargs PROVE Leads(encode(kind, nargs), R, R)
  BY <1>1 DEF encode
<1>5. ASSUME NEW steps PROVE Leads(Only(FALSE, steps), R, R)
  BY LeadsNowhere DEF Only
<1>. QED  BY <1>2, <1>3, <1>4, <1>5

LEMMA SetupRegister ==
  ASSUME NEW R \in SUBSET SetupFacts, NEW role \in Roles, NEW key \in Keys, NEW k \in Kinds
  PROVE  /\ (\A f \in R : f.store = "db" => f.key # key)
              => Leads(registerContractInJsonDb(key, role), R, R)
         /\ (Ready(role, k) \subseteq R /\ (\A f \in R : f.store = "db" => f.key # key))
              => Leads(insertContractAddressInDb(key, role), R, R \cup Entry(key, k))
<1>. DEFINE x == [op |-> "register", key |-> key, role |-> role]
<1>1. x.op \in SetupOps /\ x.op = "register" /\ x.key = key /\ x.role = role
  BY DEF SetupOps
<1>. HIDE DEF x
<1>2. ASSUME \A f \in R : f.store = "db" => f.key # key
      PROVE  R \subseteq Learned(R, x)
  BY <1>1, <1>2 DEF Learned, Loses
<1>3. ASSUME Ready(role, k) \subseteq R
      PROVE  Entry(key, k) \subseteq Learned(R, x)
  <2>1. ASSUME NEW f \in Entry(key, k)
        PROVE  f \in Learned(R, x)
    <3>. DEFINE g == [f EXCEPT !.store = "inst", !.role = role]
    <3>1. /\ f \in SetupFacts /\ f.store = "db" /\ f.key = key
          /\ \/ f.what = "kind" /\ f.kind = IAUP
             \/ f.what = "runs" /\ f.kind = k
             \/ f.what = "approved"
      BY DEF Entry
    <3>2. g \in SetupFacts
      BY <3>1, OtherFact
    <3>3. g.store = "inst" /\ g.role = role /\ g.what = f.what /\ g.kind = f.kind
      BY <3>1 DEF SetupFacts
    <3>. HIDE DEF g
    <3>4. g \in Ready(role, k)
      BY <3>1, <3>2, <3>3 DEF Ready, Is, Runs, Approved
    <3>5. Learns(R, x, f)
      BY <1>1, <1>3, <3>1, <3>4 DEF Learns, g
    <3>. QED  BY <3>1, <3>5 DEF Learned
  <2>. QED  BY <2>1
<1>4. (\A f \in R : f.store = "db" => f.key # key) => Leads(<<x>>, R, R)
  BY <1>1, <1>2, LeadsStep
<1>5. (Ready(role, k) \subseteq R /\ (\A f \in R : f.store = "db" => f.key # key))
        => Leads(<<x>>, R, R \cup Entry(key, k))
  <2>. SUFFICES ASSUME Ready(role, k) \subseteq R, \A f \in R : f.store = "db" => f.key # key
                PROVE  Leads(<<x>>, R, R \cup Entry(key, k))
    OBVIOUS
  <2>1. R \cup Entry(key, k) \subseteq Learned(R, x)
    BY <1>2, <1>3
  <2>. QED  BY <1>1, <2>1, LeadsStep
<1>. QED  BY <1>4, <1>5 DEF x, registerContractInJsonDb, insertContractAddressInDb

LEMMA SetupDeploy ==
  ASSUME NEW R \in SUBSET SetupFacts, NEW role \in Roles, NEW kind \in Kinds, NEW slug, NEW signer,
         <<kind, slug>> \in Keys, Untouched(R, role, <<kind, slug>>)
  PROVE  Leads(deployContract(kind, slug, signer, role), R, R \cup Is(role, kind))
<1>. DEFINE x == [op |-> "send", kind |-> kind, from |-> signer, role |-> role]
            Q == R \cup Is(role, kind)
<1>1. x.op \in SetupOps /\ x.op = "send" /\ x.kind = kind /\ x.role = role
  BY DEF SetupOps
<1>. HIDE DEF x
<1>2. R \subseteq Learned(R, x) /\ Is(role, kind) \subseteq Learned(R, x)
  BY <1>1 DEF Learned, Loses, Learns, Untouched, Is
<1>3. Q \in SUBSET SetupFacts /\ (\A f \in Q : f.store = "db" => f.key # <<kind, slug>>)
  BY DEF Is, Untouched
<1>4. Leads(<<x>>, R, Q)
  BY <1>1, <1>2, LeadsStep
<1>. HIDE DEF Q
<1>5. Leads(registerContractInJsonDb(<<kind, slug>>, role), Q, Q)
  BY <1>3, SetupRegister
<1>6. Leads(<<x>> \o registerContractInJsonDb(<<kind, slug>>, role), R, Q)
  BY <1>4, <1>5, LeadsOn
<1>. QED  BY <1>6 DEF x, Q, deployContract

\* Without and with the wait for the transaction; the test set-up verifies nothing.
LEMMA SetupDeployed ==
  ASSUME NEW R \in SUBSET SetupFacts, NEW role \in Roles, NEW kind \in Kinds, NEW signer,
         Untouched(R, role, <<kind, "">>), NEW steps
  PROVE  /\ Leads(deployContract(kind, "", signer, role) \o Only(FALSE, steps), R,
                  R \cup Is(role, kind))
         /\ Leads(deployContract(kind, "", signer, role) \o wait(role) \o Only(FALSE, steps), R,
                  R \cup Is(role, kind))
<1>. DEFINE Q == R \cup Is(role, kind)
            s == deployContract(kind, "", signer, role)
<1>1. <<kind, "">> \in Keys
  BY DEF Keys
<1>2. Leads(s, R, Q)
  BY <1>1, SetupDeploy
<1>3. Q \in SUBSET SetupFacts
  BY DEF Is
<1>. HIDE DEF Q, s
<1>4. Leads(wait(role), Q, Q) /\ Leads(Only(FALSE, steps), Q, Q)
  BY <1>3, SetupQuiet
<1>5. Leads(s \o wait(role), R, Q)
  BY <1>2, <1>4, LeadsOn
<1>6. Leads((s \o wait(role)) \o Only(FALSE, steps), R, Q)
  BY <1>4, <1>5, LeadsOn
<1>7. Leads(s \o Only(FALSE, steps), R, Q)
  BY <1>2, <1>4, LeadsOn
<1>. QED  BY <1>6, <1>7 DEF Q, s

LEMMA SetupProxyInit ==
  ASSUME NEW R \in SUBSET SetupFacts, NEW role \in Roles, NEW logic \in Roles, NEW k \in Kinds,
         Is(role, IAUP) \subseteq R, Is(logic, k) \subseteq R
  PROVE  Leads(proxyInit(role, logic), R, R \cup Runs(role, k))
<1>. DEFINE x == [op |-> "proxyInit", role |-> role, logic |-> logic]
<1>1. x.op \in SetupOps /\ x.op = "proxyInit" /\ x.logic = logic /\ x.role = role
  BY DEF SetupOps
<1>. HIDE DEF x
<1>2. R \subseteq Learned(R, x)
  BY <1>1 DEF Learned, Loses
<1>3. ASSUME NEW f \in Runs(role, k)
      PROVE  f \in Learned(R, x)
  <2>. DEFINE g == [f EXCEPT !.what = "kind", !.kind = IAUP]
              h == [f EXCEPT !.what = "kind", !.role = logic]
  <2>1. f \in SetupFacts /\ f.store = "inst" /\ f.role = role /\ f.what = "runs" /\ f.kind = k
    BY DEF Runs
  <2>2. g \in SetupFacts /\ h \in SetupFacts
    BY <2>1, ProxyFact, LogicFact
  <2>3. /\ g.store = "inst" /\ g.role = role /\ g.what = "kind" /\ g.kind = IAUP
        /\ h.store = "inst" /\ h.role = logic /\ h.what = "kind" /\ h.kind = k
    BY <2>1 DEF SetupFacts
  <2>. HIDE DEF g, h
  <2>4. g \in R /\ h \in R
    BY <2>2, <2>3 DEF Is
  <2>5. Learns(R, x, f)
    BY <1>1, <2>1, <2>4 DEF Learns, g, h
  <2>. QED  BY <2>1, <2>5 DEF Learned
<1>4. R \cup Runs(role, k) \subseteq Learned(R, x)
  BY <1>2, <1>3
<1>5. Leads(<<x>>, R, R \cup Runs(role, k))
  BY <1>1, <1>4, LeadsStep
<1>. QED  BY <1>5 DEF x, proxyInit

LEMMA SetupUpgrade ==
  ASSUME NEW R \in SUBSET SetupFacts, NEW role \in Roles, NEW logic \in Roles, NEW k \in Kinds,
         Is(role, IAUP) \subseteq R, Is(logic, k) \subseteq R
  PROVE  Leads(<<[op |-> "upgrade", role |-> role, logic |-> logic]>>, R,
               {f \in R : f.what # "runs"} \cup Runs(role, k))
<1>. DEFINE x == [op |-> "upgrade", role |-> role, logic |-> logic]
            Q == {f \in R : f.what # "runs"} \cup Runs(role, k)
<1>1. x.op \in SetupOps /\ x.op = "upgrade" /\ x.logic = logic /\ x.role = role
  BY DEF SetupOps
<1>. HIDE DEF x
<1>2. {f \in R : f.what # "runs"} \subseteq Learned(R, x)
  BY <1>1 DEF Learned, Loses
<1>3. ASSUME NEW f \in Runs(role, k)
      PROVE  f \in Learned(R, x)
  <2>. DEFINE g == [f EXCEPT !.what = "kind", !.kind = IAUP]
              h == [f EXCEPT !.what = "kind", !.role = logic]
  <2>1. f \in SetupFacts /\ f.store = "inst" /\ f.role = role /\ f.what = "runs" /\ f.kind = k
    BY DEF Runs
  <2>2. g \in SetupFacts /\ h \in SetupFacts
    BY <2>1, ProxyFact, LogicFact
  <2>3. /\ g.store = "inst" /\ g.role = role /\ g.what = "kind" /\ g.kind = IAUP
        /\ h.store = "inst" /\ h.role = logic /\ h.what = "kind" /\ h.kind = k
    BY <2>1 DEF SetupFacts
  <2>. HIDE DEF g, h
  <2>4. g \in R /\ h \in R
    BY <2>2, <2>3 DEF Is
  <2>5. Learns(R, x, f)
    BY <1>1, <2>1, <2>4 DEF Learns, g, h
  <2>. QED  BY <2>1, <2>5 DEF Learned
<1>4. Q \subseteq Learned(R, x)
  BY <1>2, <1>3
<1>5. Leads(<<x>>, R, Q)
  BY <1>1, <1>4, LeadsStep
<1>. QED  BY <1>5 DEF x, Q

LEMMA SetupApprove ==
  ASSUME NEW R \in SUBSET SetupFacts, NEW role \in Roles, Is(role, IAUP) \subseteq R
  PROVE  Leads(approve(role), R, R \cup Approved(role))
<1>. DEFINE x == [op |-> "approve", role |-> role]
<1>1. x.op \in SetupOps /\ x.op = "approve" /\ x.role = role
  BY DEF SetupOps
<1>. HIDE DEF x
<1>2. R \subseteq Learned(R, x)
  BY <1>1 DEF Learned, Loses
<1>3. ASSUME NEW f \in Approved(role)
      PROVE  f \in Learned(R, x)
  <2>. DEFINE g == [f EXCEPT !.what = "kind", !.kind = IAUP]
  <2>1. f \in SetupFacts /\ f.store = "inst" /\ f.role = role /\ f.what = "approved"
    BY DEF Approved
  <2>2. g \in SetupFacts
    BY <2>1, ProxyFact, LogicFact
  <2>3. g.store = "inst" /\ g.role = role /\ g.what = "kind" /\ g.kind = IAUP
    BY <2>1 DEF SetupFacts
  <2>. HIDE DEF g
  <2>4. g \in R
    BY <2>2, <2>3 DEF Is
  <2>5. Learns(R, x, f)
    BY <1>1, <2>1, <2>4 DEF Learns, g
  <2>. QED  BY <2>1, <2>5 DEF Learned
<1>4. R \cup Approved(role) \subseteq Learned(R, x)
  BY <1>2, <1>3
<1>5. Leads(<<x>>, R, R \cup Approved(role))
  BY <1>1, <1>4, LeadsStep
<1>. QED  BY <1>5 DEF x, approve

LEMMA SetupLookup ==
  ASSUME NEW R \in SUBSET SetupFacts, NEW role \in Roles, NEW kind, NEW slug,
         <<kind, slug>> \in Keys, \A f \in R : f.store = "inst" => f.role # role
  PROVE  /\ Leads(getContractFactory(kind, slug, role), R, R)
         /\ \A k \in Kinds : Entry(<<kind, slug>>, k) \subseteq R
              => Leads(getContractFactory(kind, slug, role), R, R \cup Ready(role, k))
<1>. DEFINE key == <<kind, slug>>
            x == [op |-> "lookup", key |-> key, role |-> role]
<1>1. x.op \in SetupOps /\ x.op = "lookup" /\ x.key = key /\ x.role = role
  BY DEF SetupOps
<1>. HIDE DEF x
<1>2. R \subseteq Learned(R, x)
  BY <1>1 DEF Learned, Loses
<1>3. ASSUME NEW k \in Kinds, Entry(key, k) \subseteq R
      PROVE  Ready(role, k) \subseteq Learned(R, x)
  <2>1. ASSUME NEW f \in Ready(role, k)
        PROVE  f \in Learned(R, x)
    <3>. DEFINE g == [f EXCEPT !.store = "db", !.key = key]
    <3>1. /\ f \in SetupFacts /\ f.store = "inst" /\ f.role = role
          /\ \/ f.what = "kind" /\ f.kind = IAUP
             \/ f.what = "runs" /\ f.kind = k
             \/ f.what = "approved"
      BY DEF Ready, Is, Runs, Approved
    <3>2. g \in SetupFacts
      BY <3>1, OtherFact
    <3>3. g.store = "db" /\ g.key = key /\ g.what = f.what /\ g.kind = f.kind
      BY <3>1 DEF SetupFacts
    <3>. HIDE DEF g
    <3>4. g \in R
      BY <1>3, <3>1, <3>2, <3>3 DEF Entry
    <3>5. Learns(R, x, f)
      BY <1>1, <3>1, <3>4 DEF Learns, g
    <3>. QED  BY <3>1, <3>5 DEF Learned
  <2>. QED  BY <2>1
<1>4. Leads(<<x>>, R, R)
  BY <1>1, <1>2, LeadsStep
<1>5. ASSUME NEW k \in Kinds, Entry(key, k) \subseteq R
      PROVE  Leads(<<x>>, R, R \cup Ready(role, k))
  <2>1. R \cup Ready(role, k) \subseteq Learned(R, x)
    BY <1>2, <1>3, <1>5
  <2>. QED  BY <1>1, <2>1, LeadsStep
<1>. QED  BY <1>4, <1>5 DEF x, lookup, getContractFactory

------------------------------------------------------------------------------
(* The scripts of the set-up *)

LEMMA LeadsFive ==
  ASSUME NEW R0, NEW R1, NEW R2, NEW R3, NEW R4, NEW R5,
         NEW a, Leads(a, R0, R1), NEW b, Leads(b, R1, R2), NEW c, Leads(c, R2, R3),
         NEW d, Leads(d, R3, R4), NEW e, Leads(e, R4, R5)
  PROVE  Leads(a \o b \o c \o d \o e, R0, R5)
<1>1. Leads(a \o b, R0, R2)
  BY LeadsOn
<1>2. Leads((a \o b) \o c, R0, R3)
  BY <1>1, LeadsOn
<1>3. Leads(((a \o b) \o c) \o d, R0, R4)
  BY <1>2, LeadsOn
<1>. QED  BY <1>3, LeadsOn

LEMMA LeadsLess ==
  ASSUME NEW s, NEW R, NEW Q, NEW Q2, Leads(s, R, Q2), Q \subseteq Q2
  PROVE  Leads(s, R, Q)
BY DEF Leads


\* The deployments of the set-up, from facts about other instances and entries
LEMMA SetupDeployments ==
  ASSUME NEW R \in SUBSET SetupFacts, NEW role \in Roles
  PROVE  /\ Untouched(R, role, <<IAUP, "">>)
              => Leads(deployInitializableAdminUpgradeabilityProxy(FALSE, "owner", role),
                       R, R \cup Is(role, IAUP))
         /\ Untouched(R, role, <<"RollexIncentivesController", "">>)
              => Leads(deployRollexIncentivesController(FALSE, role),
                       R, R \cup Is(role, "RollexIncentivesController"))
         /\ Untouched(R, role, <<"StakedREX", "">>)
              => Leads(deployStakedREX(FALSE, role), R, R \cup Is(role, "StakedREX"))
         /\ Untouched(R, role, <<"StakedREXV3", "">>)
              => Leads(deployStakedREXV3(FALSE, role), R, R \cup Is(role, "StakedREXV3"))
         /\ Untouched(R, role, <<"MockTransferHook", "">>)
              => Leads(deployMockTransferHook(role), R, R \cup Is(role, "MockTransferHook"))
         /\ Untouched(R, role, <<"MintableErc20", "">>)
              => Leads(deployMintableErc20(role), R, R \cup Is(role, "MintableErc20"))
         /\ \A slug \in Slugs : Untouched(R, role, <<"ATokenMock", slug>>)
              => Leads(deployATokenMock(slug, role), R, R \cup Is(role, "ATokenMock"))
<1>1. /\ {IAUP, "RollexIncentivesController", "StakedREX", "StakedREXV3", "MockTransferHook",
          "MintableErc20", "ATokenMock"} \subseteq Kinds
      /\ \A kind \in Kinds : <<kind, "">> \in Keys
      /\ \A slug \in Slugs : <<"ATokenMock", slug>> \in Keys
  BY DEF IAUP, Kinds, Keys
<1>2. \A kind \in Kinds : Untouched(R, role, <<kind, "">>) =>
        /\ \A steps : Leads(deployContract(kind, "", "owner", role) \o Only(FALSE, steps),
                            R, R \cup Is(role, kind))
        /\ \A steps : Leads(deployContract(kind, "", "owner", role) \o wait(role)
                              \o Only(FALSE, steps), R, R \cup Is(role, kind))
  BY SetupDeployed
<1>3. \A kind \in Kinds : \A slug :
        <<kind, slug>> \in Keys /\ Untouched(R, role, <<kind, slug>>) =>
          Leads(deployContract(kind, slug, "owner", role), R, R \cup Is(role, kind))
  BY SetupDeploy
<1>4. Untouched(R, role, <<IAUP, "">>)
        => Leads(deployInitializableAdminUpgradeabilityProxy(FALSE, "owner", role),
                 R, R \cup Is(role, IAUP))
  BY <1>1, <1>2 DEF deployInitializableAdminUpgradeabilityProxy, IAUP
<1>5. Untouched(R, role, <<"RollexIncentivesController", "">>)
        => Leads(deployRollexIncentivesController(FALSE, role),
                 R, R \cup Is(role, "RollexIncentivesController"))
  BY <1>1, <1>2 DEF deployRollexIncentivesController
<1>6. Untouched(R, role, <<"StakedREX", "">>)
        => Leads(deployStakedREX(FALSE, role), R, R \cup Is(role, "StakedREX"))
  BY <1>1, <1>2 DEF deployStakedREX
<1>7. Untouched(R, role, <<"StakedREXV3", "">>)
        => Leads(deployStakedREXV3(FALSE, role), R, R \cup Is(role, "StakedREXV3"))
  BY <1>1, <1>2 DEF deployStakedREXV3
<1>8. Untouched(R, role, <<"MockTransferHook", "">>)
        => Leads(deployMockTransferHook(role), R, R \cup Is(role, "MockTransferHook"))
  BY <1>1, <1>3 DEF deployMockTransferHook
<1>9. Untouched(R, role, <<"MintableErc20", "">>)
        => Leads(deployMintableErc20(role), R, R \cup Is(role, "MintableErc20"))
  BY <1>1, <1>3 DEF deployMintableErc20
<1>10. \A slug \in Slugs : Untouched(R, role, <<"ATokenMock", slug>>)
        => Leads(deployATokenMock(slug, role), R, R \cup Is(role, "ATokenMock"))
  BY <1>1, <1>3 DEF deployATokenMock
<1>. QED  BY <1>4, <1>5, <1>6, <1>7, <1>8, <1>9, <1>10

StakedREXKey == <<"StakedREX", "">>
V3Key == <<"StakedREXV3", "">>
ControllerKey == <<"RollexIncentivesController", "">>

V1Entries == Entry(StakedREXKey, "StakedREX")
             \cup Entry(ControllerKey, "RollexIncentivesController")

\* R is about instances of roles and entries of keys.
Of(R, roles, keys) ==
  \A f \in R : (f.store = "inst" => f.role \in roles) /\ (f.store = "db" => f.key \in keys)

LEMMA SetupNames ==
  /\ {"icProxy", "stakeProxy", "icImpl", "stakeImpl", "hook", "v3Impl", "aDai", "aWeth", "rexToken",
      "testEnv.StakedREX", "testEnv.StakedREXV3", "testEnv.rexToken",
      "testEnv.rollexIncentivesController", "testEnv.aDaiMock", "testEnv.aWethMock"} \subseteq Roles
  /\ {IAUP, "StakedREX", "StakedREXV3", "RollexIncentivesController", "MockTransferHook",
      "MintableErc20", "ATokenMock"} \subseteq Kinds
  /\ {StakedREXKey, V3Key, ControllerKey, <<"MintableErc20", "">>, <<"ATokenMock", "aDai">>,
      <<"ATokenMock", "aWeth">>} \subseteq Keys
  /\ {"aDai", "aWeth"} \subseteq Slugs
<1>1. {"icProxy", "stakeProxy", "icImpl", "stakeImpl", "hook", "v3Impl", "aDai", "aWeth", "rexToken",
       "testEnv.StakedREX", "testEnv.StakedREXV3", "testEnv.rexToken",
       "testEnv.rollexIncentivesController", "testEnv.aDaiMock", "testEnv.aWethMock"} \subseteq Roles
  BY DEF Roles, TestRoles
<1>2. {IAUP, "StakedREX", "StakedREXV3", "RollexIncentivesController", "MockTransferHook",
       "MintableErc20", "ATokenMock"} \subseteq Kinds
  BY DEF IAUP, Kinds
<1>3. \A kind \in Kinds : <<kind, "">> \in Keys
  BY DEF Keys
<1>4. {"aDai", "aWeth"} \subseteq Slugs /\ \A slug \in Slugs : <<"ATokenMock", slug>> \in Keys
  BY DEF Slugs, Keys
<1>5. {StakedREXKey, V3Key, ControllerKey, <<"MintableErc20", "">>, <<"ATokenMock", "aDai">>,
       <<"ATokenMock", "aWeth">>} \subseteq Keys
  BY <1>2, <1>3, <1>4 DEF StakedREXKey, V3Key, ControllerKey
<1>. QED  BY <1>1, <1>2, <1>4, <1>5

LEMMA FamiliesAreFacts ==
  /\ \A r, k : Is(r, k) \in SUBSET SetupFacts /\ Runs(r, k) \in SUBSET SetupFacts
               /\ Ready(r, k) \in SUBSET SetupFacts
  /\ \A r : Approved(r) \in SUBSET SetupFacts
  /\ \A key, k : Entry(key, k) \in SUBSET SetupFacts
BY DEF Is, Runs, Ready, Approved, Entry

(* V1 deployed anew keeps the entry of V3, which an earlier deployment left. *)
LEMMA V1Leads ==
  ASSUME NEW K, K \subseteq Entry(V3Key, "StakedREXV3")
  PROVE  Leads(testDeployrexStakeV1, K,
               K \cup Ready("stakeProxy", "StakedREX") \cup V1Entries)
<1>. USE SetupNames, FamiliesAreFacts
<1>. DEFINE R1 == K \cup Is("icProxy", IAUP)
            R2 == R1 \cup Is("stakeProxy", IAUP)
            R3 == R2 \cup Is("icImpl", "RollexIncentivesController")
            R4 == R3 \cup Is("stakeImpl", "StakedREX")
            R5 == R4 \cup Is("hook", "MockTransferHook")
            R6 == R5 \cup Runs("stakeProxy", "StakedREX")
            R7 == R6 \cup Approved("stakeProxy")
            R8 == R7 \cup Entry(StakedREXKey, "StakedREX")
            R9 == R8 \cup Runs("icProxy", "RollexIncentivesController")
            R10 == R9 \cup Approved("icProxy")
            R11 == R10 \cup Entry(ControllerKey, "RollexIncentivesController")
<1>1. /\ K \in SUBSET SetupFacts /\ R1 \in SUBSET SetupFacts /\ R2 \in SUBSET SetupFacts
      /\ R3 \in SUBSET SetupFacts /\ R4 \in SUBSET SetupFacts /\ R5 \in SUBSET SetupFacts
      /\ R6 \in SUBSET SetupFacts /\ R7 \in SUBSET SetupFacts /\ R8 \in SUBSET SetupFacts
      /\ R9 \in SUBSET SetupFacts /\ R10 \in SUBSET SetupFacts
  OBVIOUS
<1>2. \A f \in K : f.store = "db" /\ f.key = V3Key
  BY DEF Entry
<1>3. /\ V3Key # <<IAUP, "">> /\ V3Key # <<"RollexIncentivesController", "">>
      /\ V3Key # <<"StakedREX", "">> /\ V3Key # <<"MockTransferHook", "">>
      /\ V3Key # StakedREXKey /\ V3Key # ControllerKey /\ StakedREXKey # ControllerKey
  BY DEF V3Key, IAUP, StakedREXKey, ControllerKey
<1>4. /\ Of(K, {}, {V3Key})
      /\ Of(R1, {"icProxy"}, {V3Key})
      /\ Of(R2, {"icProxy", "stakeProxy"}, {V3Key})
      /\ Of(R3, {"icProxy", "stakeProxy", "icImpl"}, {V3Key})
      /\ Of(R4, {"icProxy", "stakeProxy", "icImpl", "stakeImpl"}, {V3Key})
  BY <1>2 DEF Of, Is
<1>5. /\ Of(R7, Roles, {V3Key})
      /\ Of(R10, Roles, {V3Key, StakedREXKey})
  BY <1>2 DEF Of, Is, Runs, Approved, Entry, SetupFacts
<1>6. /\ Untouched(K, "icProxy", <<IAUP, "">>)
      /\ Untouched(R1, "stakeProxy", <<IAUP, "">>)
      /\ Untouched(R2, "icImpl", <<"RollexIncentivesController", "">>)
      /\ Untouched(R3, "stakeImpl", <<"StakedREX", "">>)
      /\ Untouched(R4, "hook", <<"MockTransferHook", "">>)
  <2>. HIDE DEF R1, R2, R3, R4
  <2>. QED  BY <1>3, <1>4 DEF Of, Untouched
<1>7. /\ \A f \in R7 : f.store = "db" => f.key # StakedREXKey
      /\ \A f \in R10 : f.store = "db" => f.key # ControllerKey
  <2>. HIDE DEF R7, R10
  <2>. QED  BY <1>3, <1>5 DEF Of
<1>8. /\ Is("stakeProxy", IAUP) \subseteq R5 /\ Is("stakeImpl", "StakedREX") \subseteq R5
      /\ Is("stakeProxy", IAUP) \subseteq R6 /\ Ready("stakeProxy", "StakedREX") \subseteq R7
      /\ Is("icProxy", IAUP) \subseteq R8 /\ Is("icImpl", "RollexIncentivesController") \subseteq R8
      /\ Is("icProxy", IAUP) \subseteq R9
      /\ Ready("icProxy", "RollexIncentivesController") \subseteq R10
  BY DEF Ready
<1>9. K \cup Ready("stakeProxy", "StakedREX") \cup V1Entries \subseteq R11
  BY DEF Ready, V1Entries
<1>. DEFINE a1 == deployInitializableAdminUpgradeabilityProxy(FALSE, "owner", "icProxy")
            a2 == deployInitializableAdminUpgradeabilityProxy(FALSE, "owner", "stakeProxy")
            a3 == deployRollexIncentivesController(FALSE, "icImpl")
            a4 == deployStakedREX(FALSE, "stakeImpl")
            a5 == deployMockTransferHook("hook")
            b1 == encode("StakedREX", 4)
            b2 == proxyInit("stakeProxy", "stakeImpl")
            b3 == approve("stakeProxy")
            b4 == insertContractAddressInDb(<<"StakedREX", "">>, "stakeProxy")
            c1 == encode("RollexIncentivesController", 0)
            c2 == proxyInit("icProxy", "icImpl")
            c3 == approve("icProxy")
            c4 == insertContractAddressInDb(<<"RollexIncentivesController", "">>, "icProxy")
            a == a1 \o a2 \o a3 \o a4 \o a5
            b == a \o b1 \o b2 \o b3 \o b4
            c == b \o c1 \o c2 \o c3 \o c4
<1>10. Leads(a1, K, R1) /\ Leads(a2, R1, R2)
  BY <1>1, <1>6, SetupDeployments
<1>11. Leads(a3, R2, R3) /\ Leads(a4, R3, R4) /\ Leads(a5, R4, R5)
  BY <1>1, <1>6, SetupDeployments
<1>12. Leads(b1, R5, R5) /\ Leads(c1, R8, R8)
  BY <1>1, SetupQuiet
<1>13. Leads(b2, R5, R6) /\ Leads(c2, R8, R9)
  BY <1>1, <1>8, SetupProxyInit
<1>14. Leads(b3, R6, R7) /\ Leads(c3, R9, R10)
  BY <1>1, <1>8, SetupApprove
<1>15. Leads(b4, R7, R8) /\ Leads(c4, R10, R11)
  BY <1>1, <1>7, <1>8, SetupRegister DEF StakedREXKey, ControllerKey
<1>16. testDeployrexStakeV1 = c
  BY DEF testDeployrexStakeV1
<1>. HIDE DEF R1, R2, R3, R4, R5, R6, R7, R8, R9, R10, R11, a1, a2, a3, a4, a5, b1, b2, b3, b4,
              c1, c2, c3, c4
<1>17. Leads(a, K, R5)
  BY <1>10, <1>11, LeadsFive
<1>. HIDE DEF a
<1>18. Leads(b, K, R8)
  BY <1>12, <1>13, <1>14, <1>15, <1>17, LeadsFive
<1>. HIDE DEF b
<1>19. Leads(c, K, R11)
  BY <1>12, <1>13, <1>14, <1>15, <1>18, LeadsFive
<1>. HIDE DEF c
<1>. QED  BY <1>9, <1>16, <1>19, LeadsLess

\* The upgrade leaves the facts of earlier revisions uncertain; only its own entry counts.
LEMMA V2Leads == Leads(testDeployrexStakeV2, {}, Entry(V3Key, "StakedREXV3"))
<1>. USE SetupNames, FamiliesAreFacts
<1>. DEFINE Q1 == {} \cup Ready("stakeProxy", "StakedREX") \cup V1Entries
            Q2 == Q1 \cup Is("v3Impl", "StakedREXV3")
            Q3 == {f \in Q2 : f.what # "runs"} \cup Runs("stakeProxy", "StakedREXV3")
            Q4 == Ready("stakeProxy", "StakedREXV3")
            Q5 == Q4 \cup Entry(V3Key, "StakedREXV3")
            a == testDeployrexStakeV1
            b == deployStakedREXV3(FALSE, "v3Impl")
            c == encode("StakedREXV3", 0)
            d == <<[op |-> "upgrade", role |-> "stakeProxy", logic |-> "v3Impl"]>>
            e == insertContractAddressInDb(<<"StakedREXV3", "">>, "stakeProxy")
<1>1. Leads(a, {}, Q1)
  BY V1Leads
<1>2. /\ Q1 \in SUBSET SetupFacts /\ Q2 \in SUBSET SetupFacts /\ Q4 \in SUBSET SetupFacts
      /\ Is("stakeProxy", IAUP) \subseteq Q2 /\ Is("v3Impl", "StakedREXV3") \subseteq Q2
  BY DEF V1Entries, Ready
<1>3. Q4 \subseteq Q3
  BY DEF Q3, Ready, Is, Approved
<1>4. Untouched(Q1, "v3Impl", <<"StakedREXV3", "">>)
  <2>1. V3Key # StakedREXKey /\ V3Key # ControllerKey
    BY DEF V3Key, StakedREXKey, ControllerKey
  <2>2. Of(Q1, {"stakeProxy"}, {StakedREXKey, ControllerKey})
    BY DEF Of, V1Entries, Ready, Is, Runs, Approved, Entry
  <2>. HIDE DEF Q1
  <2>. QED  BY <2>1, <2>2 DEF Of, Untouched, V3Key
<1>5. \A f \in Q4 : f.store = "db" => f.key # V3Key
  BY DEF Ready, Is, Runs, Approved
<1>6. Leads(b, Q1, Q2)
  BY <1>2, <1>4, SetupDeployments
<1>7. Leads(c, Q2, Q2)
  BY <1>2, SetupQuiet
<1>8. Leads(d, Q2, Q3)
  BY <1>2, SetupUpgrade
<1>9. Leads(e, Q4, Q5)
  BY <1>2, <1>5, SetupRegister DEF V3Key
<1>10. Entry(V3Key, "StakedREXV3") \subseteq Q5
  OBVIOUS
<1>11. testDeployrexStakeV2 = a \o b \o c \o d \o e
  BY DEF testDeployrexStakeV2
<1>. HIDE DEF a, b, c, d, e, Q1, Q2, Q3, Q4, Q5
<1>12. Leads(d, Q2, Q4)
  BY <1>3, <1>8, LeadsLess
<1>13. Leads(a \o b \o c \o d \o e, {}, Q5)
  BY <1>1, <1>6, <1>7, <1>9, <1>12, LeadsFive
<1>. QED  BY <1>10, <1>11, <1>13, LeadsLess

SetupGoal == Ready("testEnv.StakedREX", "StakedREX")
             \cup Ready("testEnv.StakedREXV3", "StakedREXV3")
             \cup Ready("testEnv.rollexIncentivesController", "RollexIncentivesController")

\* What initializeMakeSuite looks up
LEMMA SuiteLeads ==
  Leads(initializeMakeSuite, Entry(V3Key, "StakedREXV3") \cup V1Entries, SetupGoal)
<1>. USE SetupNames, FamiliesAreFacts
<1>. DEFINE T == Entry(V3Key, "StakedREXV3") \cup V1Entries
            T1 == T \cup Ready("testEnv.StakedREX", "StakedREX")
            T2 == T1 \cup Ready("testEnv.StakedREXV3", "StakedREXV3")
            T3 == T2 \cup Ready("testEnv.rollexIncentivesController", "RollexIncentivesController")
            a == getContractFactory("StakedREX", "", "testEnv.StakedREX")
            b == getContractFactory("StakedREXV3", "", "testEnv.StakedREXV3")
            c == getContractFactory("RollexIncentivesController", "",
                                    "testEnv.rollexIncentivesController")
            d == getContractFactory("MintableErc20", "", "testEnv.rexToken")
            e == getContractFactory("ATokenMock", "aDai", "testEnv.aDaiMock")
            g == getContractFactory("ATokenMock", "aWeth", "testEnv.aWethMock")
<1>1. /\ T \in SUBSET SetupFacts /\ T1 \in SUBSET SetupFacts /\ T2 \in SUBSET SetupFacts
      /\ T3 \in SUBSET SetupFacts
  BY DEF V1Entries
<1>2. /\ \A f \in T : f.store # "inst"
      /\ \A r, k : \A f \in Ready(r, k) : f.role = r
  BY DEF V1Entries, Entry, Ready, Is, Runs, Approved
<1>3. /\ \A f \in T : f.store = "inst" => f.role # "testEnv.StakedREX"
      /\ \A f \in T1 : f.store = "inst" => f.role # "testEnv.StakedREXV3"
      /\ \A f \in T2 : f.store = "inst" => f.role # "testEnv.rollexIncentivesController"
  <2>. HIDE DEF T
  <2>. QED  BY <1>2
<1>4. \A r \in {"testEnv.rexToken", "testEnv.aDaiMock", "testEnv.aWethMock"} :
        \A f \in T3 : f.store = "inst" => f.role # r
  <2>. HIDE DEF T
  <2>. QED  BY <1>2
<1>5. /\ Entry(StakedREXKey, "StakedREX") \subseteq T
      /\ Entry(V3Key, "StakedREXV3") \subseteq T1
      /\ Entry(ControllerKey, "RollexIncentivesController") \subseteq T2
  BY DEF V1Entries
<1>6. SetupGoal \subseteq T3
  BY DEF SetupGoal
<1>7. initializeMakeSuite = a \o b \o c \o d \o e \o g
  BY DEF initializeMakeSuite
<1>8. Leads(a, T, T1)
  <2>. HIDE DEF T
  <2>. QED  BY <1>1, <1>3, <1>5, SetupLookup DEF StakedREXKey
<1>9. Leads(b, T1, T2)
  <2>. HIDE DEF T1
  <2>. QED  BY <1>1, <1>3, <1>5, SetupLookup DEF V3Key
<1>10. Leads(c, T2, T3)
  <2>. HIDE DEF T2
  <2>. QED  BY <1>1, <1>3, <1>5, SetupLookup DEF ControllerKey
<1>11. Leads(d, T3, T3) /\ Leads(e, T3, T3) /\ Leads(g, T3, T3)
  <2>. HIDE DEF T3
  <2>. QED  BY <1>1, <1>4, SetupLookup
<1>. HIDE DEF a, b, c, d, e, g, T, T1, T2, T3
<1>12. Leads(a \o b \o c \o d \o e, T, T3)
  BY <1>8, <1>9, <1>10, <1>11, LeadsFive
<1>13. Leads((a \o b \o c \o d \o e) \o g, T, T3)
  BY <1>11, <1>12, LeadsOn
<1>14. Leads(initializeMakeSuite, T, SetupGoal)
  BY <1>6, <1>7, <1>13, LeadsLess
<1>. QED  BY <1>14 DEF T

LEMMA TestSetupLeads == Leads(TestSetup, {}, SetupGoal)
<1>. USE SetupNames, FamiliesAreFacts
<1>. DEFINE E == Entry(V3Key, "StakedREXV3")
            T == E \cup V1Entries
            a == setDRE
            b == deployMintableErc20("rexToken")
            c == testDeployrexStakeV2
            d == testDeployrexStakeV1
            e == deployATokenMock("aDai", "aDai")
            g == deployATokenMock("aWeth", "aWeth")
            h == initializeMakeSuite
<1>1. {} \in SUBSET SetupFacts /\ T \in SUBSET SetupFacts
  BY DEF V1Entries
<1>2. /\ Untouched({}, "rexToken", <<"MintableErc20", "">>)
      /\ Untouched(T, "aDai", <<"ATokenMock", "aDai">>)
      /\ Untouched(T, "aWeth", <<"ATokenMock", "aWeth">>)
  <2>1. \A slug : <<"ATokenMock", slug>> \notin {V3Key, StakedREXKey, ControllerKey}
    BY DEF V3Key, StakedREXKey, ControllerKey
  <2>2. Of(T, {}, {V3Key, StakedREXKey, ControllerKey})
    BY DEF Of, V1Entries, Entry
  <2>. HIDE DEF T
  <2>. QED  BY <2>1, <2>2 DEF Of, Untouched
<1>3. Leads(a, {}, {})
  BY <1>1, SetupQuiet
<1>4. Leads(b, {}, {} \cup Is("rexToken", "MintableErc20"))
  BY <1>1, <1>2, SetupDeployments
<1>5. Leads(b, {}, {})
  <2>1. {} \subseteq {} \cup Is("rexToken", "MintableErc20")
    OBVIOUS
  <2>. HIDE DEF b
  <2>. QED  BY <1>4, <2>1, LeadsLess
<1>6. Leads(c, {}, E)
  BY V2Leads
<1>7. Leads(d, E, T)
  <2>1. Leads(d, E, E \cup Ready("stakeProxy", "StakedREX") \cup V1Entries)
    BY V1Leads
  <2>2. T \subseteq E \cup Ready("stakeProxy", "StakedREX") \cup V1Entries
    OBVIOUS
  <2>. HIDE DEF d, E, T
  <2>. QED  BY <2>1, <2>2, LeadsLess
<1>8. Leads(e, T, T) /\ Leads(g, T, T)
  <2>1. Leads(e, T, T \cup Is("aDai", "ATokenMock")) /\ Leads(g, T, T \cup Is("aWeth", "ATokenMock"))
    <3>. HIDE DEF T
    <3>. QED  BY <1>1, <1>2, SetupDeployments
  <2>2. T \subseteq T \cup Is("aDai", "ATokenMock") /\ T \subseteq T \cup Is("aWeth", "ATokenMock")
    OBVIOUS
  <2>. HIDE DEF T, e, g
  <2>3. Leads(e, T, T)
    BY <2>1, <2>2, LeadsLess
  <2>. QED  BY <2>1, <2>2, <2>3, LeadsLess
<1>9. Leads(h, T, SetupGoal)
  BY SuiteLeads
<1>. HIDE DEF a, b, c, d, e, g, h, E, T
<1>10. Leads(a \o b \o c \o d \o e, {}, T)
  BY <1>3, <1>5, <1>6, <1>7, <1>8, LeadsFive
<1>11. Leads((a \o b \o c \o d \o e) \o g, {}, T)
  BY <1>8, <1>10, LeadsOn
<1>12. Leads(((a \o b \o c \o d \o e) \o g) \o h, {}, SetupGoal)
  BY <1>9, <1>11, LeadsOn
<1>. QED  BY <1>12 DEF a, b, c, d, e, g, h, TestSetup

------------------------------------------------------------------------------
(* The states of the set-up *)

\* What the set-up of the tests has still to do leads to its goal.
SetupFits ==
  (task = "test" /\ outcome \in {"running", "finished"}) =>
    network = "hardhat" /\ Leads(todo, SetupNow, SetupGoal)

\* A step of the set-up, after which what it teaches is the case
LEMMA SetupDone ==
  ASSUME SetupFits, task = "test", outcome = "running", todo # <<>>, Done,
         UNCHANGED <<task, network>>,
         Head(todo).op \in SetupOps => Learned(SetupNow, Head(todo)) \subseteq SetupNow'
  PROVE  SetupFits'
<1>1. Head(todo).op \in SetupOps /\ Leads(Tail(todo), Learned(SetupNow, Head(todo)), SetupGoal)
  BY LeadsFirst DEF SetupFits
<1>2. SetupGoal \subseteq SetupGoal
  OBVIOUS
<1>3. Leads(Tail(todo), SetupNow', SetupGoal)
  BY <1>1, <1>2, LeadsWeakened
<1>. QED  BY <1>3 DEF SetupFits, Done

LEMMA SetupSame ==
  ASSUME SetupFits, UNCHANGED <<task, outcome, todo, inst, db, network>>,
         task = "test" => chain'["hardhat"] = chain["hardhat"]
  PROVE  SetupFits'
<1>. SUFFICES ASSUME task = "test", outcome \in {"running", "finished"}
              PROVE  network = "hardhat" /\ Leads(todo, SetupNow', SetupGoal)
  BY DEF SetupFits
<1>1. network = "hardhat" /\ Leads(todo, SetupNow, SetupGoal)
  BY DEF SetupFits
<1>2. SetupNow' = SetupNow
  BY <1>1 DEF SetupNow, SetupHolds, Place, Here
<1>. QED  BY <1>1, <1>2

\* Steps that change nothing that a fact is about
LEMMA SetupQuietKeeps ==
  ASSUME SetupFits, task = "test", outcome = "running", todo # <<>>, Done,
         UNCHANGED <<task, network, inst, db, chain>>,
         Head(todo).op \notin {"send", "register", "proxyInit", "approve", "upgrade", "lookup"}
  PROVE  SetupFits'
<1>1. SetupNow' = SetupNow
  BY DEF SetupNow, SetupHolds, Place, Here
<1>2. Learned(SetupNow, Head(todo)) \subseteq SetupNow
  BY DEF Learned, Learns
<1>. QED  BY <1>1, <1>2, SetupDone

LEMMA SetupAborts ==
  ASSUME NEW why, Abort(why)
  PROVE  SetupFits'
BY DEF Abort, SetupFits

LEMMA SetupLookupKeeps ==
  ASSUME SetupFits, task = "test", ProcessOK, Lookup
  PROVE  SetupFits'
<1>. USE DEF At, process, world, verifyVars, environment
<1>. DEFINE x == Head(todo)
            a == db[network][x.key]
<1>1. CASE a = 0
  BY <1>1, SetupAborts DEF Lookup
<1>2. CASE a # 0
  <2>1. /\ outcome = "running" /\ todo # <<>> /\ x.op = "lookup" /\ Done
        /\ inst' = [inst EXCEPT ![x.role] = a]
        /\ UNCHANGED <<task, chain, db, network>>
    BY <1>2 DEF Lookup
  <2>2. inst \in [Roles -> 0 .. Outside]
    BY DEF ProcessOK, ProcessTypes
  <2>. HIDE DEF x
  <2>3. ASSUME NEW f \in Learned(SetupNow, x)
        PROVE  SetupHolds(f)'
    <3>1. f \in SetupFacts /\ f.role \in Roles /\ f.store \in {"inst", "db"}
      BY DEF Learned, SetupFacts
    <3>2. CASE Learns(SetupNow, x, f)
      <4>. DEFINE g == [f EXCEPT !.store = "db", !.key = x.key]
      <4>1. f.store = "inst" /\ f.role = x.role /\ g \in SetupNow
        BY <2>1, <3>2 DEF Learns
      <4>2. g.store = "db" /\ g.key = x.key /\ g.what = f.what /\ g.kind = f.kind
        BY <3>1 DEF SetupFacts
      <4>3. SetupHolds(g)
        BY <4>1 DEF SetupNow
      <4>. HIDE DEF g
      <4>4. Place(g) = a /\ Place(f)' = a
        BY <2>1, <2>2, <3>1, <4>1, <4>2 DEF Place
      <4>. QED  BY <2>1, <4>2, <4>3, <4>4 DEF SetupHolds, Here
    <3>3. CASE f \in SetupNow /\ ~Loses(x, f)
      <4>1. SetupHolds(f) /\ ~(f.store = "inst" /\ f.role = x.role)
        BY <2>1, <3>3 DEF SetupNow, Loses
      <4>2. Place(f)' = Place(f)
        BY <2>1, <2>2, <3>1, <4>1 DEF Place
      <4>. QED  BY <2>1, <4>1, <4>2 DEF SetupHolds, Here
    <3>. QED  BY <3>2, <3>3 DEF Learned
  <2>4. Learned(SetupNow, x) \subseteq SetupNow'
    BY <2>3 DEF SetupNow, Learned
  <2>. QED  BY <2>1, <2>4, SetupDone DEF x
<1>. QED  BY <1>1, <1>2

LEMMA SetupRegisterKeeps ==
  ASSUME SetupFits, task = "test", ProcessOK, Register
  PROVE  SetupFits'
<1>. USE DEF At, process, world, verifyVars, environment
<1>. DEFINE x == Head(todo)
<1>1. /\ outcome = "running" /\ todo # <<>> /\ x.op = "register" /\ Done
      /\ db' = [db EXCEPT ![network][x.key] = inst[x.role]]
      /\ UNCHANGED <<task, chain, inst, network>>
  BY DEF Register
<1>2. db \in [ConfiguredNetworks -> [Keys -> 0 .. MaxContracts]] /\ network \in ConfiguredNetworks
  BY DEF ProcessOK, ProcessTypes
<1>. HIDE DEF x
<1>3. ASSUME NEW f \in Learned(SetupNow, x)
      PROVE  SetupHolds(f)'
  <2>1. f \in SetupFacts /\ f.key \in Keys /\ f.store \in {"inst", "db"}
    BY DEF Learned, SetupFacts
  <2>2. CASE Learns(SetupNow, x, f)
    <3>. DEFINE g == [f EXCEPT !.store = "inst", !.role = x.role]
    <3>1. f.store = "db" /\ f.key = x.key /\ g \in SetupNow
      BY <1>1, <2>2 DEF Learns
    <3>2. g.store = "inst" /\ g.role = x.role /\ g.what = f.what /\ g.kind = f.kind
      BY <2>1 DEF SetupFacts
    <3>3. SetupHolds(g)
      BY <3>1 DEF SetupNow
    <3>. HIDE DEF g
    <3>4. Place(g) = inst[x.role] /\ Place(f)' = inst[x.role]
      BY <1>1, <1>2, <2>1, <3>1, <3>2 DEF Place
    <3>. QED  BY <1>1, <3>2, <3>3, <3>4 DEF SetupHolds, Here
  <2>3. CASE f \in SetupNow /\ ~Loses(x, f)
    <3>1. SetupHolds(f) /\ ~(f.store = "db" /\ f.key = x.key)
      BY <1>1, <2>3 DEF SetupNow, Loses
    <3>2. Place(f)' = Place(f)
      BY <1>1, <1>2, <2>1, <3>1 DEF Place
    <3>. QED  BY <1>1, <3>1, <3>2 DEF SetupHolds, Here
  <2>. QED  BY <2>2, <2>3 DEF Learned
<1>4. Learned(SetupNow, x) \subseteq SetupNow'
  BY <1>3 DEF SetupNow, Learned
<1>. QED  BY <1>1, <1>4, SetupDone DEF x

LEMMA SetupSendKeeps ==
  ASSUME SetupFits, task = "test", ProcessOK, Send
  PROVE  SetupFits'
<1>. USE DEF At, process, world, verifyVars, environment
<1>. DEFINE x == Head(todo)
            s == chain[network]
            status == IF network = "hardhat" THEN "mined" ELSE "pending"
            e == [kind |-> x.kind, from |-> x.from, status |-> status,
                  logic |-> 0, revision |-> 0, approved |-> FALSE]
<1>1. CASE Abort("reverted")
  BY <1>1, SetupAborts
<1>2. CASE ~Abort("reverted")
  <2>1. /\ outcome = "running" /\ todo # <<>> /\ x.op = "send" /\ Done
        /\ chain' = [chain EXCEPT ![network] = Append(s, e)]
        /\ inst' = [inst EXCEPT ![x.role] = Len(s) + 1]
        /\ UNCHANGED <<task, db, network>>
    BY <1>2 DEF Send
  <2>2. inst \in [Roles -> 0 .. Outside] /\ network \in ConfiguredNetworks
    BY DEF ProcessOK, ProcessTypes
  <2>3. s \in Seq(Range(s)) /\ Len(s) \in Nat
    BY <2>2, LenProperties DEF ProcessOK, ChainShape
  <2>4. e.kind = x.kind
    OBVIOUS
  <2>. HIDE DEF x, e, status
  <2>5. /\ Len(Append(s, e)) = Len(s) + 1
        /\ Append(s, e)[Len(s) + 1] = e
        /\ \A a \in 1 .. Len(s) : Append(s, e)[a] = s[a]
    <3>1. s \in Seq(Range(s) \cup {e})
      BY <2>3, SeqMonotonic
    <3>. QED  BY <2>3, <3>1
  <2>6. chain'[network] = Append(s, e)
    BY <2>1, <2>2 DEF ProcessOK, ChainShape
  <2>. HIDE DEF s
  <2>7. Len(s) + 1 \in 1 .. Len(s) + 1 /\ \A a \in 1 .. Len(s) : a \in 1 .. Len(s) + 1
    BY <2>3
  <2>8. ASSUME NEW f \in Learned(SetupNow, x)
        PROVE  SetupHolds(f)'
    <3>1. f \in SetupFacts /\ f.role \in Roles /\ f.store \in {"inst", "db"}
      BY DEF Learned, SetupFacts
    <3>2. CASE Learns(SetupNow, x, f)
      <4>1. f.store = "inst" /\ f.role = x.role /\ f.what = "kind" /\ f.kind = x.kind
        BY <2>1, <3>2 DEF Learns
      <4>2. Place(f)' = Len(s) + 1
        BY <2>1, <2>2, <3>1, <4>1 DEF Place
      <4>. QED  BY <2>1, <2>4, <2>5, <2>6, <2>7, <4>1, <4>2 DEF SetupHolds, Here
    <3>3. CASE f \in SetupNow /\ ~Loses(x, f)
      <4>1. SetupHolds(f) /\ ~(f.store = "inst" /\ f.role = x.role)
        BY <2>1, <3>3 DEF SetupNow, Loses
      <4>2. Place(f)' = Place(f)
        BY <2>1, <2>2, <3>1, <4>1 DEF Place
      <4>3. Place(f) \in 1 .. Len(s)
        BY <4>1 DEF SetupHolds, s
      <4>4. chain'[network][Place(f)] = chain[network][Place(f)]
        BY <2>5, <2>6, <4>3 DEF s
      <4>. QED  BY <2>1, <2>5, <2>6, <2>7, <4>1, <4>2, <4>3, <4>4 DEF SetupHolds, Here
    <3>. QED  BY <3>2, <3>3 DEF Learned
  <2>9. Learned(SetupNow, x) \subseteq SetupNow'
    BY <2>8 DEF SetupNow, Learned
  <2>. QED  BY <2>1, <2>9, SetupDone DEF x
<1>. QED  BY <1>1, <1>2

\* No proxy is initialized twice, so no other name stands for one whose
\* revision is known.
LEMMA SetupLogicSet ==
  ASSUME SetupFits, task = "test", ProcessOK, LogicWritten
  PROVE  SetupFits'
<1>. DEFINE x == Head(todo)
            q == inst[x.role]
            l == inst[x.logic]
            s == chain[network]
<1>1. /\ x.op \in {"proxyInit", "upgrade"} /\ outcome = "running" /\ todo # <<>> /\ Done
      /\ x.op = "proxyInit" => Here(q).logic = 0
      /\ UNCHANGED <<task, db, inst, network>>
      /\ LogicSet(chain, chain', network, q, l, Revision[Here(l).kind])
  BY DEF LogicWritten, process, verifyVars, environment
<1>2. network \in ConfiguredNetworks /\ ChainShape(chain)
  BY DEF ProcessOK, ProcessTypes
<1>3. Len(s) \in Nat
  BY <1>2, LenProperties DEF ChainShape
<1>4. /\ Len(chain'[network]) = Len(s)
      /\ \A a \in 1 .. Len(s) :
           /\ chain'[network][a].kind = s[a].kind /\ chain'[network][a].approved = s[a].approved
           /\ a # q => chain'[network][a].logic = s[a].logic
                       /\ chain'[network][a].revision = s[a].revision
           /\ a = q => chain'[network][a].logic = l
                       /\ chain'[network][a].revision = Revision[Here(l).kind]
  BY <1>1 DEF LogicSet
<1>. HIDE DEF x, s
<1>5. ASSUME NEW f \in Learned(SetupNow, x)
      PROVE  SetupHolds(f)'
  <2>1. f \in SetupFacts /\ f.store \in {"inst", "db"} /\ f.what \in {"kind", "runs", "approved"}
    BY DEF Learned, SetupFacts
  <2>2. Place(f)' = Place(f)
    BY <1>1 DEF Place
  <2>3. CASE Learns(SetupNow, x, f)
    <3>. DEFINE g == [f EXCEPT !.what = "kind", !.kind = IAUP]
                h == [f EXCEPT !.what = "kind", !.role = x.logic]
    <3>1. f.store = "inst" /\ f.role = x.role /\ f.what = "runs" /\ g \in SetupNow /\ h \in SetupNow
      BY <1>1, <2>3 DEF Learns
    <3>2. /\ g.store = "inst" /\ g.role = x.role
          /\ h.store = "inst" /\ h.role = x.logic /\ h.what = "kind" /\ h.kind = f.kind
      BY <2>1, <3>1 DEF SetupFacts
    <3>3. SetupHolds(g) /\ SetupHolds(h)
      BY <3>1 DEF SetupNow
    <3>. HIDE DEF g, h
    <3>4. Place(g) = q /\ Place(h) = l /\ Place(f) = q
      BY <1>1, <3>1, <3>2 DEF Place
    <3>5. q \in 1 .. Len(s) /\ l \in 1 .. Len(s) /\ Here(l).kind = f.kind
      BY <3>2, <3>3, <3>4 DEF SetupHolds, s
    <3>6. l # 0
      BY <1>3, <3>5, PositionNotZero
    <3>7. /\ chain'[network][q].logic = l
          /\ chain'[network][q].revision = Revision[f.kind]
      BY <1>4, <3>5
    <3>. QED  BY <1>1, <1>4, <2>2, <3>1, <3>4, <3>5, <3>6, <3>7 DEF SetupHolds, Here
  <2>4. CASE f \in SetupNow /\ ~Loses(x, f)
    <3>1. SetupHolds(f) /\ Place(f) \in 1 .. Len(s) /\ (f.what = "runs" => x.op # "upgrade")
      BY <2>4 DEF SetupNow, SetupHolds, Loses, s
    <3>2. f.what = "runs" => Place(f) # q
      BY <1>1, <3>1 DEF SetupHolds
    <3>. QED  BY <1>1, <1>4, <2>1, <2>2, <3>1, <3>2 DEF SetupHolds, Here, s
  <2>. QED  BY <2>3, <2>4 DEF Learned
<1>6. Learned(SetupNow, x) \subseteq SetupNow'
  BY <1>5 DEF SetupNow, Learned
<1>. QED  BY <1>1, <1>6, SetupDone DEF x

LEMMA SetupProxiesKeep ==
  ASSUME SetupFits, task = "test", ProcessOK, ProxyInit \/ Upgrade
  PROVE  SetupFits'
BY ProxyWritten, SetupLogicSet, SetupAborts

LEMMA SetupApproveKeeps ==
  ASSUME SetupFits, task = "test", ProcessOK, Approve
  PROVE  SetupFits'
<1>. USE DEF At, process, world, verifyVars, environment
<1>. DEFINE x == Head(todo)
            q == inst[x.role]
            s == chain[network]
<1>1. /\ outcome = "running" /\ todo # <<>> /\ x.op = "approve" /\ Done
      /\ chain' = [chain EXCEPT ![network][q]["approved"] = TRUE]
      /\ UNCHANGED <<task, inst, db, network>>
  BY DEF Approve
<1>2. network \in ConfiguredNetworks /\ ChainShape(chain)
  BY DEF ProcessOK, ProcessTypes
<1>3. AlikeBut(chain, chain', network, q, "approved")
  BY <1>1, <1>2, EntrySet
<1>4. q \in 1 .. Len(s) => chain'[network][q]["approved"] = TRUE
  <2>1. "approved" \in ContractFields
    BY DEF ContractFields
  <2>. DEFINE c2 == [chain EXCEPT ![network][q]["approved"] = TRUE]
  <2>. HIDE DEF q
  <2>2. q \in 1 .. Len(chain[network]) => c2[network][q]["approved"] = TRUE
    BY <1>2, <2>1, FieldHasValue
  <2>. HIDE DEF c2
  <2>3. chain' = c2
    BY <1>1 DEF c2, q
  <2>. QED  BY <2>2, <2>3
<1>5. /\ Len(chain'[network]) = Len(s)
      /\ \A a \in 1 .. Len(s) :
           /\ chain'[network][a].kind = s[a].kind /\ chain'[network][a].logic = s[a].logic
           /\ chain'[network][a].revision = s[a].revision
           /\ a # q => chain'[network][a].approved = s[a].approved
  BY <1>2, <1>3 DEF AlikeBut, ContractFields
<1>. HIDE DEF x, s
<1>6. ASSUME NEW f \in Learned(SetupNow, x)
      PROVE  SetupHolds(f)'
  <2>1. f \in SetupFacts /\ f.store \in {"inst", "db"} /\ f.what \in {"kind", "runs", "approved"}
    BY DEF Learned, SetupFacts
  <2>2. Place(f)' = Place(f)
    BY <1>1 DEF Place
  <2>3. CASE Learns(SetupNow, x, f)
    <3>. DEFINE g == [f EXCEPT !.what = "kind", !.kind = IAUP]
    <3>1. f.store = "inst" /\ f.role = x.role /\ f.what = "approved" /\ g \in SetupNow
      BY <1>1, <2>3 DEF Learns
    <3>2. g.store = "inst" /\ g.role = x.role
      BY <2>1, <3>1 DEF SetupFacts
    <3>3. SetupHolds(g)
      BY <3>1 DEF SetupNow
    <3>. HIDE DEF g
    <3>4. Place(g) = q /\ Place(f) = q
      BY <3>1, <3>2 DEF Place
    <3>5. q \in 1 .. Len(s)
      BY <3>3, <3>4 DEF SetupHolds, s
    <3>. QED  BY <1>1, <1>4, <1>5, <2>2, <3>1, <3>4, <3>5 DEF SetupHolds, Here
  <2>4. CASE f \in SetupNow /\ ~Loses(x, f)
    <3>1. SetupHolds(f) /\ Place(f) \in 1 .. Len(s)
      BY <2>4 DEF SetupNow, SetupHolds, s
    <3>2. f.what = "approved" => chain'[network][Place(f)].approved
      <4>1. CASE Place(f) = q
        BY <1>4, <3>1, <4>1
      <4>2. CASE Place(f) # q
        BY <1>5, <3>1, <4>2 DEF SetupHolds, Here, s
      <4>. QED  BY <4>1, <4>2
    <3>. QED  BY <1>1, <1>5, <2>1, <2>2, <3>1, <3>2 DEF SetupHolds, Here, s
  <2>. QED  BY <2>3, <2>4 DEF Learned
<1>7. Learned(SetupNow, x) \subseteq SetupNow'
  BY <1>6 DEF SetupNow, Learned
<1>. QED  BY <1>1, <1>7, SetupDone DEF x

LEMMA SetupStarts ==
  ASSUME Start
  PROVE  SetupFits'
<1>. SUFFICES ASSUME task' = "test"
              PROVE  network' = "hardhat" /\ Leads(todo', SetupNow', SetupGoal)
  BY DEF SetupFits
<1>1. PICK t \in Tasks[runs + 1] : \E p \in FlagsOf(t) :
        task' = t /\ todo' = LoadedTasks(p)[t] /\ flags' = p
  BY DEF Start
<1>2. \A p : LoadedTasks(p)["test"] = TestSetup
  BY DEF LoadedTasks, TaskNames
<1>3. todo' = TestSetup /\ network' = "hardhat"
  BY <1>1, <1>2 DEF Start
<1>4. {} \subseteq SetupNow' /\ SetupGoal \subseteq SetupGoal
  OBVIOUS
<1>5. Leads(TestSetup, SetupNow', SetupGoal)
  BY <1>4, TestSetupLeads, LeadsWeakened
<1>. QED  BY <1>3, <1>5

\* The tests' set-up takes no other step; a step that is taken is one of its own.
LEMMA SetupHasNoOther ==
  ASSUME SetupFits, task = "test", outcome = "running", todo # <<>>
  PROVE  Head(todo).op \in SetupOps
BY LeadsFirst DEF SetupFits

LEMMA SetupKept ==
  ASSUME SetupFits, ProcessOK, [Next]_vars
  PROVE  SetupFits'
<1>. USE DEF process, world, verifyVars, environment
<1>1. CASE Start
  BY <1>1, SetupStarts
<1>2. CASE Crash
  BY <1>2 DEF Crash, SetupFits
<1>3. CASE MineNext
  <2>1. PICK who : Mine(who)
    BY <1>3 DEF MineNext
  <2>2. UNCHANGED <<task, outcome, todo, inst, db, network>> /\ chain'["hardhat"] = chain["hardhat"]
    BY <2>1, NetworksDiffer DEF Mine, ProcessOK, ChainShape
  <2>. QED  BY <2>2, SetupSame
<1>4. CASE ProcessStep /\ task # "test"
  <2>1. task' = task
    BY <1>4 DEF ProcessStep, Finish, SetDRE, UseDRE, CheckVerification, RequireParams, RequireImpls,
       Defender, Given, Run, Encode, Lookup, Send, Wait, ProxyInit, Upgrade, Approve, Create, Register,
       Verify, Verifying, Abort
  <2>. QED  BY <1>4, <2>1 DEF SetupFits
<1>5. CASE ProcessStep /\ task = "test"
  <2>. USE DEF At
  <2>1. CASE Lookup \/ Register \/ Send
    BY <1>5, <2>1, SetupLookupKeeps, SetupRegisterKeeps, SetupSendKeeps
  <2>2. CASE ProxyInit \/ Upgrade \/ Approve
    BY <1>5, <2>2, SetupProxiesKeep, SetupApproveKeeps
  <2>3. CASE Finish
    <3>1. task' = task /\ network' = network /\ todo' = todo /\ SetupNow' = SetupNow
          /\ outcome = "running"
      BY <2>3 DEF Finish, SetupNow, SetupHolds, Place, Here
    <3>. QED  BY <3>1 DEF SetupFits
  <2>4. CASE Verifying
    <3>1. UNCHANGED <<task, outcome, todo, inst, db, network, chain>>
      BY <2>4 DEF Verifying, VerifyStep, delay, RunTask, GiveUp
    <3>. QED  BY <3>1, SetupSame
  <2>5. CASE SetDRE \/ Wait \/ Encode
    <3>1. ASSUME NEW why, Abort(why) PROVE SetupFits'
      BY <3>1, SetupAborts
    <3>2. ASSUME Done, outcome = "running", todo # <<>>, UNCHANGED <<task, network, inst, db, chain>>,
                 Head(todo).op \in {"setDRE", "wait", "encode"}
          PROVE  SetupFits'
      BY <1>5, <3>2, SetupQuietKeeps
    <3>. QED  BY <2>5, <3>1, <3>2 DEF SetDRE, Wait, Encode
  <2>6. CASE UseDRE \/ CheckVerification \/ RequireParams \/ RequireImpls \/ Defender \/ Given \/ Run
             \/ Create \/ Verify
    <3>1. outcome = "running" /\ todo # <<>> /\ Head(todo).op \notin SetupOps
      BY <2>6 DEF UseDRE, CheckVerification, RequireParams, RequireImpls, Defender, Given, Run, Create,
         Verify, SetupOps
    <3>. QED  BY <1>5, <3>1, SetupHasNoOther
  <2>. QED  BY <1>5, <2>1, <2>2, <2>3, <2>4, <2>5, <2>6 DEF ProcessStep
<1>6. CASE UNCHANGED vars
  <2>1. UNCHANGED <<task, outcome, todo, inst, db, network, chain>>
    BY <1>6 DEF vars
  <2>. QED  BY <2>1, SetupSame
<1>. QED  BY <1>1, <1>2, <1>3, <1>4, <1>5, <1>6 DEF Next

\* What the facts Ready(r, k) say of the instance r
LEMMA ReadyHolds ==
  ASSUME NEW r \in Roles, NEW k \in Kinds, Ready(r, k) \subseteq SetupNow,
         Len(chain[network]) \in Nat
  PROVE  SetUp(r, Revision[k])
<1>. DEFINE fact(what, kind) ==
       [store |-> "inst", role |-> r, key |-> <<"StakedREX", "">>, what |-> what, kind |-> kind]
<1>1. <<"StakedREX", "">> \in Keys /\ IAUP \in Kinds
  BY SetupNames DEF StakedREXKey
<1>2. \A what \in {"kind", "runs", "approved"}, kind \in Kinds : fact(what, kind) \in SetupFacts
  BY <1>1 DEF SetupFacts
<1>3. fact("kind", IAUP) \in SetupNow /\ fact("runs", k) \in SetupNow /\ fact("approved", k) \in SetupNow
  BY <1>1, <1>2 DEF Ready, Is, Runs, Approved
<1>4. SetupHolds(fact("kind", IAUP)) /\ SetupHolds(fact("runs", k)) /\ SetupHolds(fact("approved", k))
  BY <1>3 DEF SetupNow
<1>5. /\ inst[r] \in 1 .. Len(chain[network]) /\ Here(inst[r]).kind = IAUP
      /\ Here(inst[r]).revision = Revision[k] /\ Here(inst[r]).approved
  BY <1>4 DEF SetupHolds, Place
<1>. QED  BY <1>5, PositionNotZero DEF SetUp, IAUP

(***************************************************************************)
(* Deployment: after the set-up of the test suites the instances of        *)
(* testEnv are proxies initialized at the revisions their suites expect    *)
(* and approved by the vault, StakedREX and StakedREXV3 different ones:    *)
(* although V1 is deployed twice and upgraded in between, every deployment *)
(* overwrites the entries of the one before, and the file still holds what *)
(* earlier processes left.                                                 *)
(***************************************************************************)
THEOREM TestSetupCompletes == Spec => []SetupComplete
<1>1. Init => SetupFits
  BY DEF Init, SetupFits
<1>2. DeploymentIInv /\ SetupFits /\ [Next]_vars => SetupFits'
  BY SetupKept DEF DeploymentIInv
<1>3. DeploymentIInv /\ SetupFits => SetupComplete
  <2>. SUFFICES ASSUME DeploymentIInv, SetupFits, outcome = "finished", task = "test"
                PROVE  /\ SetUp("testEnv.StakedREX", 1)
                       /\ SetUp("testEnv.StakedREXV3", 2)
                       /\ SetUp("testEnv.rollexIncentivesController", 1)
                       /\ inst["testEnv.StakedREX"] # inst["testEnv.StakedREXV3"]
    BY DEF SetupComplete
  <2>1. Leads(<<>>, SetupNow, SetupGoal)
    BY DEF DeploymentIInv, ProcessOK, ProcessTypes, SetupFits
  <2>2. SetupGoal \subseteq SetupNow
    <3>1. Len(<<>>) = 0
      OBVIOUS
    <3>. QED  BY <2>1, <3>1 DEF Leads
  <2>3. Len(chain[network]) \in Nat
    BY LenProperties DEF DeploymentIInv, ProcessOK, ProcessTypes, ChainShape
  <2>4. Revision["StakedREX"] = 1 /\ Revision["StakedREXV3"] = 2
        /\ Revision["RollexIncentivesController"] = 1
    BY DEF Revision
  <2>5. /\ SetUp("testEnv.StakedREX", Revision["StakedREX"])
        /\ SetUp("testEnv.StakedREXV3", Revision["StakedREXV3"])
        /\ SetUp("testEnv.rollexIncentivesController", Revision["RollexIncentivesController"])
    BY <2>2, <2>3, SetupNames, ReadyHolds DEF SetupGoal
  <2>6. /\ SetUp("testEnv.StakedREX", 1) /\ SetUp("testEnv.StakedREXV3", 2)
        /\ SetUp("testEnv.rollexIncentivesController", 1)
    BY <2>4, <2>5
  <2>7. inst["testEnv.StakedREX"] # inst["testEnv.StakedREXV3"]
    BY <2>6 DEF SetUp
  <2>. QED  BY <2>6, <2>7
<1>. QED  BY <1>1, <1>2, <1>3, DeploymentInductiveInvariant, PTL DEF Spec

-----------------------------------------------------------------------------
(* How long a process may still take *)

\* The tasks that a task runs; the ones without a script stop the process.
NestedTasks ==
  {"set-DRE", "deploy-StakedREX", "deploy-StakedREXV3", "initialize-StakedREXV3",
   "deploy-staked-rex-rev3", "deploy-staked-bpt-rev2", "propose-extension",
   "propose-vault-approval"}

\* The script s runs no task outside T.
Nests(s, T) ==
  /\ s \in Seq(Range(s))
  /\ \A i \in 1 .. Len(s) : s[i].op = "run" => s[i].task \in T

LEMMA NestsEmpty == \A T : Nests(<<>>, T)
<1>1. Len(<<>>) = 0 /\ <<>> \in Seq(Range(<<>>))
  OBVIOUS
<1>. QED  BY <1>1 DEF Nests

LEMMA NestsStep ==
  ASSUME NEW x, NEW T, x.op = "run" => x.task \in T
  PROVE  Nests(<<x>>, T)
<1>. DEFINE s == <<x>>
<1>1. s \in Seq({x}) /\ Len(s) = 1 /\ s[1] = x
  OBVIOUS
<1>2. s \in Seq(Range(s))
  BY <1>1, SeqOfItsRange
<1>. HIDE DEF s
<1>3. Nests(s, T)
  BY <1>1, <1>2 DEF Nests
<1>. QED  BY <1>3 DEF s

LEMMA NestsBoth ==
  ASSUME NEW s, NEW t, NEW T, Nests(s, T), Nests(t, T)
  PROVE  Nests(s \o t, T)
<1>. DEFINE S == Range(s) \cup Range(t)
            u == s \o t
<1>1. s \in Seq(S) /\ t \in Seq(S)
  BY SeqMonotonic DEF Nests
<1>2. /\ u \in Seq(S) /\ Len(s) \in Nat /\ Len(t) \in Nat /\ Len(u) = Len(s) + Len(t)
      /\ \A i \in 1 .. Len(s) + Len(t) : u[i] = IF i <= Len(s) THEN s[i] ELSE t[i - Len(s)]
  BY <1>1, ConcatProperties, LenProperties
<1>3. u \in Seq(Range(u))
  BY <1>2, SeqOfItsRange
<1>. HIDE DEF u
<1>4. ASSUME NEW i \in 1 .. Len(u), u[i].op = "run" PROVE u[i].task \in T
  <2>1. i \in 1 .. Len(s) \/ (~(i <= Len(s)) /\ i - Len(s) \in 1 .. Len(t))
    BY <1>2
  <2>. QED  BY <1>2, <1>4, <2>1 DEF Nests
<1>5. Nests(u, T)
  BY <1>3, <1>4 DEF Nests
<1>. QED  BY <1>5 DEF u

LEMMA NestsOnly ==
  ASSUME NEW flag, NEW s, NEW T, Nests(s, T)
  PROVE  Nests(Only(flag, s), T)
BY NestsEmpty DEF Only

LEMMA NestsLess ==
  ASSUME NEW s, NEW T, NEW U, Nests(s, T), T \subseteq U
  PROVE  Nests(s, U)
BY DEF Nests

\* The building blocks run nothing.
LEMMA BlocksNestNothing ==
  /\ Nests(setDRE, {}) /\ Nests(useDRE, {}) /\ Nests(requireParams, {})
  /\ \A flag : Nests(checkVerification(flag), {})
  /\ \A role : Nests(wait(role), {}) /\ Nests(verifyContract_(role), {}) /\ Nests(given(role), {})
               /\ Nests(approve(role), {})
  /\ \A key, role : Nests(lookup(key, role), {}) /\ Nests(registerContractInJsonDb(key, role), {})
  /\ \A kind, nargs : Nests(encode(kind, nargs), {})
  /\ \A role, logic : Nests(proxyInit(role, logic), {})
                      /\ Nests(<<[op |-> "upgrade", role |-> role, logic |-> logic]>>, {})
  /\ \A p : Nests(getDefenderRelaySigner(p), {})
  /\ \A from, impls : Nests(<<[op |-> "create", from |-> from, impls |-> impls]>>, {})
  /\ \A impls : Nests(<<[op |-> "requireImpls", impls |-> impls]>>, {})
  /\ \A kind, slug, signer, role : Nests(deployContract(kind, slug, signer, role), {})
<1>1. ASSUME NEW x, x.op # "run" PROVE Nests(<<x>>, {})
  BY <1>1, NestsStep
<1>2. Nests(setDRE, {}) /\ Nests(useDRE, {}) /\ Nests(requireParams, {})
  BY <1>1 DEF setDRE, useDRE, requireParams
<1>3. \A flag : Nests(checkVerification(flag), {})
  BY <1>1, NestsOnly DEF checkVerification
<1>4. \A role : Nests(wait(role), {}) /\ Nests(verifyContract_(role), {}) /\ Nests(given(role), {})
                /\ Nests(approve(role), {})
  BY <1>1 DEF wait, verifyContract_, given, approve
<1>5. \A key, role : Nests(lookup(key, role), {}) /\ Nests(registerContractInJsonDb(key, role), {})
  BY <1>1 DEF lookup, registerContractInJsonDb
<1>6. \A kind, nargs : Nests(encode(kind, nargs), {})
  BY <1>1 DEF encode
<1>7. \A role, logic : Nests(proxyInit(role, logic), {})
                       /\ Nests(<<[op |-> "upgrade", role |-> role, logic |-> logic]>>, {})
  BY <1>1 DEF proxyInit
<1>8. \A p : Nests(getDefenderRelaySigner(p), {})
  BY <1>1, NestsOnly DEF getDefenderRelaySigner
<1>9. \A from, impls : Nests(<<[op |-> "create", from |-> from, impls |-> impls]>>, {})
  BY <1>1
<1>10. \A impls : Nests(<<[op |-> "requireImpls", impls |-> impls]>>, {})
  BY <1>1
<1>11. \A kind, slug, signer, role : Nests(deployContract(kind, slug, signer, role), {})
  BY <1>1, <1>5, NestsBoth DEF deployContract
<1>. QED  BY <1>2, <1>3, <1>4, <1>5, <1>6, <1>7, <1>8, <1>9, <1>10, <1>11

\* Nor do the functions of contracts-accessors.ts.
LEMMA AccessorsNestNothing ==
  /\ \A v, role :
       /\ Nests(deployStakedREX(v, role), {}) /\ Nests(deployStakedREXV3(v, role), {})
       /\ Nests(deployRollexIncentivesController(v, role), {})
       /\ Nests(deployRollexStakingHelper(v, role), {})
       /\ Nests(deployStakeUIHelper(v, role), {})
       /\ Nests(deployStakedTokenDataProvider(v, role), {})
  /\ \A v, signer, role :
       /\ Nests(deployStakedTokenV3Revision3(v, signer, role), {})
       /\ Nests(deployInitializableAdminUpgradeabilityProxy(v, signer, role), {})
  /\ \A role : Nests(deployMintableErc20(role), {}) /\ Nests(deployMockTransferHook(role), {})
  /\ \A slug, role : Nests(deployATokenMock(slug, role), {})
  /\ \A key, role : Nests(insertContractAddressInDb(key, role), {})
  /\ \A kind, slug, role : Nests(getContractFactory(kind, slug, role), {})
<1>1. \A s, t : Nests(s, {}) /\ Nests(t, {}) => Nests(s \o t, {})
  BY NestsBoth
<1>2. \A v, role : Nests(Only(v, verifyContract_(role)), {})
  BY BlocksNestNothing, NestsOnly
<1>3. \A role : Nests(wait(role), {})
  BY BlocksNestNothing
<1>4. \A kind, slug, signer, role : Nests(deployContract(kind, slug, signer, role), {})
  BY BlocksNestNothing
<1>5. \A v, role :
       /\ Nests(deployStakedREX(v, role), {}) /\ Nests(deployStakedREXV3(v, role), {})
       /\ Nests(deployRollexIncentivesController(v, role), {})
       /\ Nests(deployRollexStakingHelper(v, role), {})
       /\ Nests(deployStakeUIHelper(v, role), {})
       /\ Nests(deployStakedTokenDataProvider(v, role), {})
  BY <1>1, <1>2, <1>3, <1>4 DEF deployStakedREX, deployStakedREXV3,
     deployRollexIncentivesController, deployRollexStakingHelper, deployStakeUIHelper,
     deployStakedTokenDataProvider
<1>6. \A v, signer, role :
       /\ Nests(deployStakedTokenV3Revision3(v, signer, role), {})
       /\ Nests(deployInitializableAdminUpgradeabilityProxy(v, signer, role), {})
  BY <1>1, <1>2, <1>3, <1>4 DEF deployStakedTokenV3Revision3,
     deployInitializableAdminUpgradeabilityProxy
<1>7. /\ \A role : Nests(deployMintableErc20(role), {}) /\ Nests(deployMockTransferHook(role), {})
      /\ \A slug, role : Nests(deployATokenMock(slug, role), {})
  BY <1>4 DEF deployMintableErc20, deployMockTransferHook, deployATokenMock
<1>8. /\ \A key, role : Nests(insertContractAddressInDb(key, role), {})
      /\ \A kind, slug, role : Nests(getContractFactory(kind, slug, role), {})
  BY BlocksNestNothing DEF insertContractAddressInDb, getContractFactory
<1>. QED  BY <1>5, <1>6, <1>7, <1>8

\* The test setup runs nothing.
LEMMA TestSetupNestsNothing == Nests(TestSetup, {})
<1>1. \A s, t : Nests(s, {}) /\ Nests(t, {}) => Nests(s \o t, {})
  BY NestsBoth
<1>2. Nests(testDeployrexStakeV1, {})
  BY <1>1, BlocksNestNothing, AccessorsNestNothing DEF testDeployrexStakeV1
<1>3. Nests(testDeployrexStakeV2, {})
  BY <1>1, <1>2, BlocksNestNothing, AccessorsNestNothing DEF testDeployrexStakeV2
<1>4. Nests(initializeMakeSuite, {})
  BY <1>1, AccessorsNestNothing DEF initializeMakeSuite
<1>. QED  BY <1>1, <1>2, <1>3, <1>4, BlocksNestNothing, AccessorsNestNothing DEF TestSetup

LEMMA LeafTasksNestNothing ==
  ASSUME NEW p
  PROVE  /\ Nests(DeployStakedREXV3Task(p), {}) /\ Nests(InitializeStakedREXV3Task(p), {})
         /\ Nests(DeployRollexStakingHelperTask(p), {}) /\ Nests(DeployStakeUIHelperTask(p), {})
         /\ Nests(DeployStakedTokenDataProviderTask(p), {})
         /\ Nests(DeployStakedRexRev3Task(p), {}) /\ Nests(ProposeExtensionTask(p), {})
         /\ Nests(ProposeVaultApprovalTask(p), {})
<1>1. \A s, t : Nests(s, {}) /\ Nests(t, {}) => Nests(s \o t, {})
  BY NestsBoth
<1>2. Nests(DeployStakedREXV3Task(p), {})
  BY <1>1, BlocksNestNothing, AccessorsNestNothing DEF DeployStakedREXV3Task
<1>3. Nests(InitializeStakedREXV3Task(p), {})
  <2>1. Nests(<<[op |-> "proxyInit", role |-> "proxy", logic |-> "impl"]>>, {})
    BY NestsStep
  <2>. QED  BY <1>1, <2>1, BlocksNestNothing
            DEF InitializeStakedREXV3Task, getStakedREXImpl, getStakedREXProxy
<1>4. Nests(DeployRollexStakingHelperTask(p), {}) /\ Nests(DeployStakeUIHelperTask(p), {})
  BY <1>1, BlocksNestNothing, AccessorsNestNothing
     DEF DeployRollexStakingHelperTask, DeployStakeUIHelperTask
<1>5. Nests(DeployStakedTokenDataProviderTask(p), {})
  BY <1>1, BlocksNestNothing, AccessorsNestNothing DEF DeployStakedTokenDataProviderTask
<1>6. Nests(DeployStakedRexRev3Task(p), {}) /\ Nests(ProposeVaultApprovalTask(p), {})
  BY <1>1, BlocksNestNothing, AccessorsNestNothing DEF DeployStakedRexRev3Task, ProposeVaultApprovalTask
<1>7. Nests(ProposeExtensionTask(p), {})
  <2>1. Nests(Only(p.stkREXimpl, given("stkREXImpl")), {})
        /\ Nests(Only(p.stkbptimpl, given("stkBptImpl")), {})
    BY BlocksNestNothing, NestsOnly
  <2>. QED  BY <1>1, <2>1, BlocksNestNothing DEF ProposeExtensionTask
<1>. QED  BY <1>2, <1>3, <1>4, <1>5, <1>6, <1>7

LEMMA OuterTasksNestLeaves ==
  ASSUME NEW p
  PROVE  /\ Nests(VerifyScTask, NestedTasks) /\ Nests(CommonDeploymentTask(p), NestedTasks)
         /\ Nests(DevDeploymentTask, NestedTasks)
         /\ Nests(ProposalStkExtensionsTask(p), NestedTasks)
         /\ Nests(ProposalVaultApprovalTask(p), NestedTasks)
<1>1. \A s, t : Nests(s, NestedTasks) /\ Nests(t, NestedTasks) => Nests(s \o t, NestedTasks)
  BY NestsBoth
<1>2. \A t \in NestedTasks : \A f : Nests(run(t, f), NestedTasks)
  BY NestsStep DEF run
<1>3. \A t \in NestedTasks : \A f, flag : Nests(Only(flag, run(t, f)), NestedTasks)
  BY <1>2, NestsOnly
<1>4. \A s : Nests(s, {}) => Nests(s, NestedTasks)
  BY NestsLess
<1>5. /\ Nests(setDRE, NestedTasks) /\ Nests(useDRE, NestedTasks)
      /\ Nests(checkVerification(p.verify), NestedTasks)
      /\ Nests(getDefenderRelaySigner(p), NestedTasks)
  BY <1>4, BlocksNestNothing
<1>6. {"set-DRE", "deploy-StakedREX", "deploy-StakedREXV3", "initialize-StakedREXV3",
       "deploy-staked-rex-rev3", "deploy-staked-bpt-rev2", "propose-extension",
       "propose-vault-approval"} \subseteq NestedTasks
  BY DEF NestedTasks
<1>7. Nests(VerifyScTask, NestedTasks) /\ Nests(CommonDeploymentTask(p), NestedTasks)
      /\ Nests(DevDeploymentTask, NestedTasks)
  BY <1>1, <1>2, <1>5, <1>6 DEF VerifyScTask, CommonDeploymentTask, DevDeploymentTask
<1>8. Nests(ProposalStkExtensionsTask(p), NestedTasks)
  BY <1>1, <1>2, <1>3, <1>5, <1>6 DEF ProposalStkExtensionsTask
<1>9. Nests(ProposalVaultApprovalTask(p), NestedTasks)
  BY <1>1, <1>2, <1>5, <1>6 DEF ProposalVaultApprovalTask
<1>. QED  BY <1>7, <1>8, <1>9

\* A task runs others that run none.
LEMMA LoadedTasksNest ==
  ASSUME NEW p, NEW t \in TaskNames
  PROVE  /\ Nests(LoadedTasks(p)[t], NestedTasks)
         /\ t \in NestedTasks => Nests(LoadedTasks(p)[t], {})
<1>. DEFINE script == LoadedTasks(p)[t]
<1>1. \A s : Nests(s, {}) => Nests(s, NestedTasks)
  BY NestsLess
<1>2. CASE t \in {"verify-sc", "common-deployment", "dev-deployment", "proposal-stk-extensions",
                  "proposal-vault-approval"}
  <2>1. t \notin NestedTasks
    BY <1>2 DEF NestedTasks
  <2>2. script \in {VerifyScTask, CommonDeploymentTask(p), DevDeploymentTask,
                    ProposalStkExtensionsTask(p), ProposalVaultApprovalTask(p)}
    BY <1>2 DEF LoadedTasks
  <2>. QED  BY <2>1, <2>2, OuterTasksNestLeaves
<1>3. CASE t \in {"set-dre", "test", "deploy-StakedREXV3", "initialize-StakedREXV3",
                  "deploy-RollexStakingHelper", "deploy-StakeUIHelper"}
  <2>1. script \in {setDRE, TestSetup, DeployStakedREXV3Task(p), InitializeStakedREXV3Task(p),
                    DeployRollexStakingHelperTask(p), DeployStakeUIHelperTask(p)}
    BY <1>3 DEF LoadedTasks
  <2>2. Nests(script, {})
    BY <2>1, BlocksNestNothing, TestSetupNestsNothing, LeafTasksNestNothing
  <2>. QED  BY <1>1, <2>2
<1>4. CASE t \in {"deploy-StakedTokenDataProvider", "deploy-staked-rex-rev3", "propose-extension",
                  "propose-vault-approval"}
  <2>1. script \in {DeployStakedTokenDataProviderTask(p), DeployStakedRexRev3Task(p),
                    ProposeExtensionTask(p), ProposeVaultApprovalTask(p)}
    BY <1>4 DEF LoadedTasks
  <2>2. Nests(script, {})
    BY <2>1, LeafTasksNestNothing
  <2>. QED  BY <1>1, <2>2
<1>. QED  BY <1>2, <1>3, <1>4 DEF TaskNames

-----------------------------------------------------------------------------
(***************************************************************************)
(* How far a process is from its end: tasks it has still to run, steps,    *)
(* attempts of the verification that it awaits, transactions not yet mined.*)
(* A nested task adds steps and no task, a verification adds attempts and  *)
(* no step, a transaction is sent by a step: the earlier number decides.   *)
(***************************************************************************)
TasksToRun(s) == {i \in 1 .. Len(s) : s[i].op = "run"}

AttemptSteps == CASE vpc = "returned" -> 0
                  [] vpc = "run" -> 2 * times + 1
                  [] vpc = "delay" -> 2 * times + 2

Unmined == {a \in 1 .. Len(chain["main"]) : chain["main"][a].status = "pending"}

WorkLeft == <<Cardinality(TasksToRun(todo)), Len(todo), AttemptSteps, Cardinality(Unmined)>>

\* The order of a dictionary; natural numbers do not decrease in it for ever.
Shorter(w, v) == \E i \in 1 .. 4 : w[i] < v[i] /\ \A j \in 1 .. i - 1 : w[j] = v[j]

(***************************************************************************)
(* Whatever a process, the chain and the explorer do, in whatever order:   *)
(* less is left to do, or the process has ended.                           *)
(***************************************************************************)
ProcessGetsCloser ==
  [][outcome = "running" /\ outcome' = "running" =>
       /\ WorkLeft \in Nat \X Nat \X Nat \X Nat
       /\ Shorter(WorkLeft', WorkLeft)]_vars

LEMMA ShiftedNoMore ==
  ASSUME NEW A \in SUBSET Int, IsFiniteSet(A), NEW B \in SUBSET Int, NEW k \in Int,
         \A b \in B : b + k \in A
  PROVE  IsFiniteSet(B) /\ Cardinality(B) <= Cardinality(A)
<1>. DEFINE f == [b \in B |-> b + k]
<1>1. f \in [B -> A] /\ \A b, c \in B : f[b] = f[c] => b = c
  OBVIOUS
<1>2. f \in Injection(B, A)
  BY <1>1 DEF Injection, IsInjective
<1>. QED  BY <1>2, FS_Injection

LEMMA RunsAreFinite ==
  ASSUME NEW S, NEW s \in Seq(S)
  PROVE  IsFiniteSet(TasksToRun(s)) /\ Cardinality(TasksToRun(s)) \in Nat
         /\ TasksToRun(s) \in SUBSET Int
<1>1. IsFiniteSet(1 .. Len(s))
  BY LenProperties, FS_Interval
<1>2. IsFiniteSet(TasksToRun(s))
  BY <1>1, FS_Subset DEF TasksToRun
<1>. QED  BY <1>2, FS_CardinalityType DEF TasksToRun

\* One step less.
LEMMA TailIsShorter ==
  ASSUME NEW S, NEW s \in Seq(S), s # <<>>
  PROVE  /\ Cardinality(TasksToRun(Tail(s))) \in Nat
         /\ Cardinality(TasksToRun(Tail(s))) <= Cardinality(TasksToRun(s))
         /\ Len(Tail(s)) \in Nat /\ Len(Tail(s)) < Len(s)
<1>1. /\ Tail(s) \in Seq(S) /\ Len(Tail(s)) = Len(s) - 1
      /\ \A i \in 1 .. Len(Tail(s)) : Tail(s)[i] = s[i + 1]
  BY HeadTailProperties
<1>2. Len(s) \in Nat /\ Len(Tail(s)) \in Nat
  BY <1>1, LenProperties
<1>3. \A i \in TasksToRun(Tail(s)) : i + 1 \in TasksToRun(s)
  BY <1>1, <1>2 DEF TasksToRun
<1>4. Cardinality(TasksToRun(Tail(s))) <= Cardinality(TasksToRun(s))
  <2>1. /\ TasksToRun(s) \in SUBSET Int /\ IsFiniteSet(TasksToRun(s))
        /\ TasksToRun(Tail(s)) \in SUBSET Int
    BY <1>1, RunsAreFinite
  <2>. DEFINE A == TasksToRun(s)
              B == TasksToRun(Tail(s))
  <2>2. /\ A \in SUBSET Int /\ IsFiniteSet(A) /\ B \in SUBSET Int /\ 1 \in Int
        /\ \A i \in B : i + 1 \in A
    BY <1>3, <2>1
  <2>. HIDE DEF A, B
  <2>3. Cardinality(B) <= Cardinality(A)
    BY <2>2, ShiftedNoMore
  <2>. QED  BY <2>3 DEF A, B
<1>5. Cardinality(TasksToRun(Tail(s))) \in Nat
  BY <1>1, RunsAreFinite
<1>. QED  BY <1>1, <1>2, <1>4, <1>5

\* A task less, if the steps that replace it run none.
LEMMA NestingIsShorter ==
  ASSUME NEW S, NEW s \in Seq(S), s # <<>>, Head(s).op = "run",
         NEW t \in Seq(S), TasksToRun(t) = {}
  PROVE  /\ Cardinality(TasksToRun(t \o Tail(s))) \in Nat
         /\ Cardinality(TasksToRun(t \o Tail(s))) < Cardinality(TasksToRun(s))
<1>. DEFINE u == t \o Tail(s)
            R == TasksToRun(s) \ {1}
<1>1. /\ Tail(s) \in Seq(S) /\ Len(Tail(s)) = Len(s) - 1 /\ Head(s) = s[1]
      /\ \A i \in 1 .. Len(Tail(s)) : Tail(s)[i] = s[i + 1]
  BY HeadTailProperties
<1>2. Len(s) \in Nat /\ Len(Tail(s)) \in Nat /\ Len(t) \in Nat /\ Len(s) >= 1
  BY <1>1, LenProperties
<1>3. /\ u \in Seq(S) /\ Len(u) = Len(t) + Len(Tail(s))
      /\ \A i \in 1 .. Len(t) + Len(Tail(s)) : u[i] = IF i <= Len(t) THEN t[i] ELSE Tail(s)[i - Len(t)]
  BY <1>1, ConcatProperties
<1>. HIDE DEF u
<1>4. \A i \in TasksToRun(u) : i + (1 - Len(t)) \in R
  <2>. SUFFICES ASSUME NEW i \in TasksToRun(u) PROVE i + (1 - Len(t)) \in R
    OBVIOUS
  <2>1. i \in 1 .. Len(t) + Len(Tail(s)) /\ u[i].op = "run"
    BY <1>3 DEF TasksToRun
  <2>2. ~(i <= Len(t))
    <3>1. ASSUME i <= Len(t) PROVE i \in TasksToRun(t)
      <4>1. i \in 1 .. Len(t) /\ u[i] = t[i]
        BY <1>2, <1>3, <2>1, <3>1
      <4>. QED  BY <2>1, <4>1 DEF TasksToRun
    <3>. QED  BY <3>1
  <2>3. i - Len(t) \in 1 .. Len(Tail(s)) /\ u[i] = Tail(s)[i - Len(t)]
    BY <1>2, <1>3, <2>1, <2>2
  <2>4. (i - Len(t)) + 1 = i + (1 - Len(t)) /\ i + (1 - Len(t)) \in 2 .. Len(s)
    BY <1>1, <1>2, <2>1, <2>3
  <2>5. s[i + (1 - Len(t))].op = "run"
    BY <1>1, <2>1, <2>3, <2>4
  <2>6. i + (1 - Len(t)) \in 1 .. Len(s) /\ i + (1 - Len(t)) # 1
    BY <1>2, <2>4
  <2>. QED  BY <2>5, <2>6 DEF TasksToRun
<1>5. /\ IsFiniteSet(R) /\ Cardinality(R) = Cardinality(TasksToRun(s)) - 1
  <2>1. 1 \in TasksToRun(s)
    BY <1>1, <1>2 DEF TasksToRun
  <2>. QED  BY <2>1, RunsAreFinite, FS_RemoveElement
<1>6. Cardinality(TasksToRun(u)) <= Cardinality(R)
  <2>1. R \in SUBSET Int /\ TasksToRun(u) \in SUBSET Int /\ 1 - Len(t) \in Int
    BY <1>2, <1>3, RunsAreFinite
  <2>. HIDE DEF R
  <2>. QED  BY <1>4, <1>5, <2>1, ShiftedNoMore
<1>7. Cardinality(TasksToRun(u)) \in Nat /\ Cardinality(TasksToRun(s)) \in Nat
  BY <1>3, RunsAreFinite
<1>8. Cardinality(TasksToRun(u)) < Cardinality(TasksToRun(s))
  BY <1>5, <1>6, <1>7
<1>. QED  BY <1>7, <1>8 DEF u

-----------------------------------------------------------------------------
NestedOnce == Nests(todo, NestedTasks)

\* What the process does: it ends, takes the first step of its script, goes
\* on with a verification or begins a nested task.
NextThing ==
  \/ outcome' # "running" /\ todo' \in {todo, <<>>}
  \/ todo # <<>> /\ todo' = Tail(todo)
  \/ /\ Verifying
     /\ todo' = todo
  \/ /\ todo # <<>> /\ Head(todo).op = "run" /\ Head(todo).task \in TaskNames
     /\ todo' = LoadedTasks(Head(todo).flags)[Head(todo).task] \o Tail(todo)

LEMMA ProcessDoesNextThing == ProcessStep => NextThing
<1>. SUFFICES ASSUME ProcessStep PROVE NextThing
  OBVIOUS
<1>. USE DEF At
<1>1. \A why : Abort(why) => NextThing
  BY DEF Abort, NextThing
<1>2. todo # <<>> /\ Done => NextThing
  BY DEF Done, NextThing
<1>3. CASE Finish
  BY <1>3 DEF Finish, NextThing
<1>4. CASE Run
  <2>1. DOMAIN LoadedTasks(Head(todo).flags) = TaskNames
    BY DEF LoadedTasks
  <2>. QED  BY <1>1, <1>4, <2>1 DEF Run, NextThing
<1>5. CASE Verifying
  BY <1>5 DEF Verifying, NextThing
<1>6. CASE SetDRE \/ UseDRE \/ CheckVerification \/ RequireParams \/ RequireImpls
  BY <1>1, <1>2, <1>6 DEF SetDRE, UseDRE, CheckVerification, RequireParams, RequireImpls
<1>7. CASE Defender \/ Given \/ Encode \/ Lookup \/ Send
  BY <1>1, <1>2, <1>7 DEF Defender, Given, Encode, Lookup, Send
<1>8. CASE Wait \/ ProxyInit \/ Upgrade \/ Approve \/ Create \/ Register \/ Verify
  BY <1>1, <1>2, <1>8 DEF Wait, ProxyInit, Upgrade, Approve, Create, Register, Verify
<1>. QED  BY <1>3, <1>4, <1>5, <1>6, <1>7, <1>8 DEF ProcessStep

LEMMA NestsTail ==
  ASSUME NEW s, NEW T, Nests(s, T), s # <<>>
  PROVE  Nests(Tail(s), T)
<1>1. /\ Tail(s) \in Seq(Range(s)) /\ Len(Tail(s)) = Len(s) - 1 /\ Len(s) \in Nat
      /\ \A i \in 1 .. Len(Tail(s)) : Tail(s)[i] = s[i + 1]
  BY HeadTailProperties, LenProperties DEF Nests
<1>2. Tail(s) \in Seq(Range(Tail(s)))
  BY <1>1, SeqOfItsRange
<1>3. \A i \in 1 .. Len(Tail(s)) : i + 1 \in 1 .. Len(s)
  BY <1>1
<1>. QED  BY <1>1, <1>2, <1>3 DEF Nests

LEMMA NestsHead ==
  ASSUME NEW s, NEW T, Nests(s, T), s # <<>>, Head(s).op = "run"
  PROVE  Head(s).task \in T
<1>1. Len(s) \in Nat /\ Len(s) >= 1 /\ Head(s) = s[1]
  BY HeadTailProperties, LenProperties DEF Nests
<1>. QED  BY <1>1 DEF Nests

LEMMA NestedOnceKept ==
  ASSUME NestedOnce, ProcessOK, [Next]_vars
  PROVE  NestedOnce'
<1>1. CASE Start
  <2>1. PICK t \in Tasks[runs + 1] : \E p \in FlagsOf(t) : todo' = LoadedTasks(p)[t]
    BY <1>1 DEF Start
  <2>2. runs + 1 \in 1 .. Len(Tasks)
    BY <1>1, DeploymentAssumption, LenProperties DEF Start, ProcessOK, ProcessTypes
  <2>3. Tasks[runs + 1] \in SUBSET TaskNames
    BY <2>2, DeploymentAssumption, ElementOfSeq
  <2>. QED  BY <2>1, <2>3, LoadedTasksNest DEF NestedOnce
<1>2. CASE Crash
  BY <1>2, NestsEmpty DEF Crash, NestedOnce
<1>3. CASE MineNext
  BY <1>3 DEF MineNext, Mine, NestedOnce
<1>4. CASE ProcessStep
  <2>1. NextThing
    BY <1>4, ProcessDoesNextThing
  <2>2. todo # <<>> => Nests(Tail(todo), NestedTasks)
    BY NestsTail DEF NestedOnce
  <2>3. \A t \in TaskNames : \A p : todo # <<>> => Nests(LoadedTasks(p)[t] \o Tail(todo), NestedTasks)
    BY <2>2, LoadedTasksNest, NestsBoth
  <2>. QED  BY <2>1, <2>2, <2>3, NestsEmpty DEF NextThing, NestedOnce
<1>5. CASE UNCHANGED vars
  BY <1>5 DEF vars, NestedOnce
<1>. QED  BY <1>1, <1>2, <1>3, <1>4, <1>5 DEF Next

-----------------------------------------------------------------------------
LEMMA WorkIsCounted ==
  ASSUME NestedOnce, DeploymentIInv
  PROVE  WorkLeft \in Nat \X Nat \X Nat \X Nat
<1>1. Cardinality(TasksToRun(todo)) \in Nat /\ Len(todo) \in Nat
  BY RunsAreFinite, LenProperties DEF NestedOnce, Nests
<1>2. AttemptSteps \in Nat
  <2>1. times \in Nat /\ vpc \in {"delay", "run", "returned"}
    BY DEF DeploymentIInv, VerificationTypeOK, Attempts
  <2>. QED  BY <2>1 DEF AttemptSteps
<1>3. IsFiniteSet(Unmined)
  <2>1. chain["main"] \in Seq(Range(chain["main"]))
    BY NetworksDiffer DEF DeploymentIInv, ProcessOK, ChainShape
  <2>2. IsFiniteSet(1 .. Len(chain["main"]))
    BY <2>1, LenProperties, FS_Interval
  <2>. QED  BY <2>2, FS_Subset DEF Unmined
<1>4. Cardinality(Unmined) \in Nat
  BY <1>3, FS_CardinalityType
<1>. QED  BY <1>1, <1>2, <1>4 DEF WorkLeft

\* The i-th number is less and those before it are the same.
LEMMA ShorterBy ==
  ASSUME NEW a, NEW b, NEW c, NEW d, NEW a2, NEW b2, NEW c2, NEW d2,
         \/ a2 < a
         \/ a2 = a /\ b2 < b
         \/ a2 = a /\ b2 = b /\ c2 < c
         \/ a2 = a /\ b2 = b /\ c2 = c /\ d2 < d
  PROVE  Shorter(<<a2, b2, c2, d2>>, <<a, b, c, d>>)
<1>. DEFINE v == <<a, b, c, d>>
            w == <<a2, b2, c2, d2>>
<1>1. /\ v[1] = a /\ v[2] = b /\ v[3] = c /\ v[4] = d
      /\ w[1] = a2 /\ w[2] = b2 /\ w[3] = c2 /\ w[4] = d2
  OBVIOUS
<1>. HIDE DEF v, w
<1>2. /\ \A j \in 1 .. 1 - 1 : FALSE
      /\ \A j \in 1 .. 2 - 1 : j = 1
      /\ \A j \in 1 .. 3 - 1 : j = 1 \/ j = 2
      /\ \A j \in 1 .. 4 - 1 : j = 1 \/ j = 2 \/ j = 3
      /\ 1 \in 1 .. 4 /\ 2 \in 1 .. 4 /\ 3 \in 1 .. 4 /\ 4 \in 1 .. 4
  OBVIOUS
<1>3. CASE a2 < a
  <2>1. w[1] < v[1] /\ \A j \in 1 .. 1 - 1 : w[j] = v[j]
    BY <1>1, <1>2, <1>3
  <2>. QED  BY <1>2, <2>1 DEF Shorter, v, w
<1>4. CASE a2 = a /\ b2 < b
  <2>1. w[2] < v[2] /\ \A j \in 1 .. 2 - 1 : w[j] = v[j]
    BY <1>1, <1>2, <1>4
  <2>. QED  BY <1>2, <2>1 DEF Shorter, v, w
<1>5. CASE a2 = a /\ b2 = b /\ c2 < c
  <2>1. w[3] < v[3] /\ \A j \in 1 .. 3 - 1 : w[j] = v[j]
    BY <1>1, <1>2, <1>5
  <2>. QED  BY <1>2, <2>1 DEF Shorter, v, w
<1>6. CASE a2 = a /\ b2 = b /\ c2 = c /\ d2 < d
  <2>1. w[4] < v[4] /\ \A j \in 1 .. 4 - 1 : w[j] = v[j]
    BY <1>1, <1>2, <1>6
  <2>. QED  BY <1>2, <2>1 DEF Shorter, v, w
<1>. QED  BY <1>3, <1>4, <1>5, <1>6

\* Every step of verifyContract is one less of those it may still take.
LEMMA VerifyingIsShorter ==
  ASSUME VerificationTypeOK, Verifying
  PROVE  AttemptSteps' < AttemptSteps
<1>1. times \in Nat
  BY DEF VerificationTypeOK, Attempts
<1>2. CASE delay
  <2>1. vpc = "delay" /\ vpc' = "run" /\ times' = times
    BY <1>2 DEF delay
  <2>. QED  BY <1>1, <2>1 DEF AttemptSteps
<1>3. CASE vpc = "run" /\ vpc' = "returned"
  <2>1. AttemptSteps = 2 * times + 1 /\ AttemptSteps' = 0
    BY <1>3 DEF AttemptSteps
  <2>. QED  BY <1>1, <2>1
<1>4. CASE vpc = "run" /\ vpc' = "delay" /\ times' = times - 1
  <2>1. AttemptSteps = 2 * times + 1 /\ AttemptSteps' = 2 * (times - 1) + 2
    BY <1>4 DEF AttemptSteps
  <2>. QED  BY <1>1, <2>1
<1>5. Verifying => delay \/ (vpc = "run" /\ (vpc' = "returned" \/ (vpc' = "delay" /\ times' = times - 1)))
  BY DEF Verifying, VerifyStep, GiveUp, RunTask, RunVerified, RunRejected, Catch, Return, Retry
<1>. QED  BY <1>2, <1>3, <1>4, <1>5

\* A mined transaction is one less to come.
LEMMA MiningIsShorter ==
  ASSUME ProcessOK, MineNext
  PROVE  Cardinality(Unmined') < Cardinality(Unmined)
<1>1. PICK who : Mine(who)
  BY DEF MineNext
<1>. DEFINE m == Min(Pending(who))
<1>2. PICK status \in {"mined", "reverted"} : chain' = [chain EXCEPT !["main"][m]["status"] = status]
  BY <1>1 DEF Mine
<1>3. m \in Unmined
  BY <1>1, OldestPending DEF Mine, Pending, Unmined
<1>. HIDE DEF m
<1>4. /\ chain = [n \in ConfiguredNetworks |-> chain[n]] /\ "main" \in ConfiguredNetworks
      /\ chain["main"] \in Seq(Range(chain["main"]))
      /\ \A a \in 1 .. Len(chain["main"]) : "status" \in DOMAIN chain["main"][a]
  BY NetworksDiffer DEF ProcessOK, ChainShape, ContractFields
<1>5. /\ Len(chain'["main"]) = Len(chain["main"])
      /\ chain'["main"][m].status = status
      /\ \A a \in 1 .. Len(chain["main"]) \ {m} : chain'["main"][a] = chain["main"][a]
  <2>1. chain'["main"] = [chain["main"] EXCEPT ![m] = [@ EXCEPT !["status"] = status]]
    BY <1>2, <1>4
  <2>2. m \in 1 .. Len(chain["main"]) /\ DOMAIN chain["main"] = 1 .. Len(chain["main"])
    BY <1>3, <1>4, LenProperties DEF Unmined
  <2>. QED  BY <1>4, <2>1, <2>2
<1>6. Unmined' = Unmined \ {m}
  BY <1>5 DEF Unmined
<1>7. IsFiniteSet(Unmined)
  <2>1. IsFiniteSet(1 .. Len(chain["main"]))
    BY <1>4, LenProperties, FS_Interval
  <2>. QED  BY <2>1, FS_Subset DEF Unmined
<1>8. Cardinality(Unmined \ {m}) = Cardinality(Unmined) - 1 /\ Cardinality(Unmined) \in Nat
  BY <1>3, <1>7, FS_RemoveElement, FS_CardinalityType
<1>. QED  BY <1>6, <1>8

LEMMA WorkGetsLess ==
  ASSUME NestedOnce, DeploymentIInv, Next, outcome = "running", outcome' = "running"
  PROVE  Shorter(WorkLeft', WorkLeft)
<1>. DEFINE a == Cardinality(TasksToRun(todo))
            b == Len(todo)
            a2 == Cardinality(TasksToRun(todo'))
            b2 == Len(todo')
            c2 == AttemptSteps'
            d2 == Cardinality(Unmined')
<1>1. WorkLeft = <<a, b, AttemptSteps, Cardinality(Unmined)>> /\ WorkLeft' = <<a2, b2, c2, d2>>
  BY DEF WorkLeft
<1>2. a \in Nat /\ b \in Nat
  BY RunsAreFinite, LenProperties DEF NestedOnce, Nests
<1>3. \/ a2 < a
      \/ a2 = a /\ b2 < b
      \/ a2 = a /\ b2 = b /\ c2 < AttemptSteps
      \/ a2 = a /\ b2 = b /\ c2 = AttemptSteps /\ d2 < Cardinality(Unmined)
  <2>1. CASE MineNext
    <3>1. UNCHANGED <<todo, vpc, times>>
      BY <2>1 DEF MineNext, Mine, verifyVars
    <3>2. c2 = AttemptSteps
      BY <3>1 DEF AttemptSteps
    <3>. QED  BY <2>1, <3>1, <3>2, MiningIsShorter DEF DeploymentIInv
  <2>2. CASE ProcessStep
    <3>1. CASE Verifying /\ todo' = todo
      BY <3>1, VerifyingIsShorter DEF DeploymentIInv
    <3>2. CASE todo # <<>> /\ todo' = Tail(todo)
      <4>1. a2 \in Nat /\ a2 <= a /\ b2 < b
        BY <3>2, TailIsShorter DEF NestedOnce, Nests
      <4>2. a2 < a \/ a2 = a
        BY <1>2, <4>1
      <4>. QED  BY <4>1, <4>2
    <3>3. CASE /\ todo # <<>> /\ Head(todo).op = "run" /\ Head(todo).task \in TaskNames
               /\ todo' = LoadedTasks(Head(todo).flags)[Head(todo).task] \o Tail(todo)
      <4>. DEFINE t == LoadedTasks(Head(todo).flags)[Head(todo).task]
                  S == Range(t) \cup Range(todo)
      <4>1. Head(todo).task \in NestedTasks
        BY <3>3, NestsHead DEF NestedOnce
      <4>2. Nests(t, {})
        BY <3>3, <4>1, LoadedTasksNest
      <4>3. TasksToRun(t) = {}
        BY <4>2 DEF Nests, TasksToRun
      <4>4. t \in Seq(S) /\ todo \in Seq(S)
        BY <4>2, SeqMonotonic DEF NestedOnce, Nests
      <4>5. todo' = t \o Tail(todo)
        BY <3>3
      <4>. HIDE DEF t, S
      <4>6. Cardinality(TasksToRun(t \o Tail(todo))) < Cardinality(TasksToRun(todo))
        BY <3>3, <4>3, <4>4, NestingIsShorter
      <4>. QED  BY <4>5, <4>6
    <3>. QED  BY <2>2, <3>1, <3>2, <3>3, ProcessDoesNextThing DEF NextThing
  <2>3. ~Start /\ ~Crash
    BY DEF Start, Crash
  <2>. QED  BY <2>1, <2>2, <2>3 DEF Next
<1>. HIDE DEF a, b, a2, b2, c2, d2
<1>. QED  BY <1>1, <1>3, ShorterBy

(***************************************************************************)
(* hardhat.config.ts, tasks/ and helpers/: no task runs another for ever,  *)
(* no verification is tried again for ever.  The measure of ProcessEnds:   *)
(* a process that goes on has less to do after every step, its own or the  *)
(* chain's, and only natural numbers of anything.                          *)
(***************************************************************************)
THEOREM ProcessMakesProgress == Spec => ProcessGetsCloser
<1>1. Init => NestedOnce
  BY NestsEmpty DEF Init, NestedOnce
<1>2. DeploymentIInv /\ NestedOnce /\ [Next]_vars => NestedOnce'
  BY NestedOnceKept DEF DeploymentIInv
<1>3. DeploymentIInv /\ NestedOnce /\ [Next]_vars =>
        [outcome = "running" /\ outcome' = "running" =>
           /\ WorkLeft \in Nat \X Nat \X Nat \X Nat
           /\ Shorter(WorkLeft', WorkLeft)]_vars
  BY WorkIsCounted, WorkGetsLess
<1>. QED  BY <1>1, <1>2, <1>3, DeploymentInductiveInvariant, PTL DEF Spec, ProcessGetsCloser
==============================================================================
