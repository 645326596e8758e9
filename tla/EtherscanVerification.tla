----------------------- MODULE EtherscanVerification -----------------------
(***************************************************************************)
(* helpers/etherscan-verification.ts: verifyContract publishes the source  *)
(* of a deployed contract on the block explorer, over a task that it tries *)
(* again when it fails.  One call at a time; every call waits before each  *)
(* attempt, writes its arguments to a temporary file and swallows every    *)
(* error of the attempts, so that a deployment goes on without it.         *)
(*                                                                         *)
(* The explorer is external.  It answers an attempt in any way its state   *)
(* allows, and an answer may be lost: the attempt then fails with an error *)
(* the code has no name for, and the source may or may not be published.   *)
(*                                                                         *)
(* Deployment composes the calls with the tasks that make them.            *)
(***************************************************************************)
EXTENDS Naturals, FiniteSetsExt

CONSTANT Addresses        \* the addresses of contracts

VARIABLES
    etherscanKey,    \* process.env.ETHERSCAN_KEY is set
    network,         \* DRE.network.name
    vpc,             \* where the call is
    address,         \* the contract it is about
    times,           \* attempts left
    relatedSources,  \* params.relatedSources
    result,          \* what the last call came to
    tempFiles,       \* contracts whose parameter file is on the disk
    published,       \* the explorer: contracts with published source
    publishedAt,     \* history: times when this call had the source published, or 0
    lost             \* history: answers of this call lost since then, up to Attempts

environment == <<etherscanKey, network>>
explorer == <<published, publishedAt, lost>>
verifyVars == <<environment, vpc, address, times, relatedSources, result, tempFiles, explorer>>

SUPPORTED_ETHERSCAN_NETWORKS == {"main", "ropsten", "kovan", "goerli"}
Networks == SUPPORTED_ETHERSCAN_NETWORKS \cup {"hardhat"}

Attempts == 4

fatalErrors == {"otherBytecode", "dailyLimit", "noBytecode", "constructor"}
okErrors == {"alreadyVerified"}
unableVerifyError == "unable"
\* Errors that none of the lists names.
OtherErrors == {"other"}

Results == {"none", "unsupported", "verified", "exhausted"} \cup okErrors \cup fatalErrors

(***************************************************************************)
(* The explorer's answers to an attempt for contract a, which it can see   *)
(* on the chain or cannot yet (found).                                     *)
(***************************************************************************)
Answers(a, found) ==
    IF a \in published THEN okErrors \cup OtherErrors
    ELSE IF ~found THEN {"noBytecode"} \cup OtherErrors
    ELSE {"verified", unableVerifyError} \cup (fatalErrors \ {"noBytecode"}) \cup OtherErrors

VerifyInit ==
    /\ vpc = "returned"
    /\ address \in Addresses
    /\ times = 0
    /\ relatedSources = FALSE
    /\ result = "none"
    /\ tempFiles = {}
    /\ published = {}
    /\ publishedAt = 0
    /\ lost = 0

(***************************************************************************)
(* verifyContract.  Without a key it throws, which is the caller's to      *)
(* handle: it has no step here then.                                       *)
(***************************************************************************)
verifyContract(a) ==
    /\ vpc = "returned"
    /\ etherscanKey
    /\ address' = a
    /\ publishedAt' = 0
    /\ lost' = 0
    /\ IF network \in SUPPORTED_ETHERSCAN_NETWORKS
         THEN /\ vpc' = "delay"
              /\ times' = Attempts
              /\ relatedSources' = TRUE
              /\ result' = "none"
              /\ tempFiles' = tempFiles \cup {a}
         ELSE /\ result' = "unsupported"
              /\ UNCHANGED <<vpc, times, relatedSources, tempFiles>>
    /\ UNCHANGED <<environment, published>>

delay ==
    /\ vpc = "delay"
    /\ vpc' = "run"
    /\ UNCHANGED <<environment, address, times, relatedSources, result, tempFiles, explorer>>

Return(r) ==
    /\ vpc' = "returned"
    /\ result' = r

Cleanup == tempFiles' = tempFiles \ {address}

Retry(left, related) ==
    /\ times' = left
    /\ relatedSources' = related
    /\ vpc' = "delay"
    /\ UNCHANGED <<result, tempFiles>>

\* Variant: an OK error is retried like any other.
CatchRetriesOk(error, related) ==
    IF error \in fatalErrors
      THEN Return(error) /\ UNCHANGED <<times, relatedSources, tempFiles>>
      ELSE Retry(times - 1, related /\ error # unableVerifyError)

\* Variant: the recursive call is passed times, not the counter.
CatchKeepsTimes(error, related) ==
    IF error \in okErrors \cup fatalErrors
      THEN Return(error) /\ UNCHANGED <<times, relatedSources, tempFiles>>
      ELSE Retry(times, related /\ error # unableVerifyError)

(***************************************************************************)
(* The catch clause: an OK or a fatal error ends the call and leaves the   *)
(* file behind, any other costs an attempt.                                *)
(***************************************************************************)
Catch(error, related) ==
    IF error \in okErrors \cup fatalErrors
      THEN Return(error) /\ UNCHANGED <<times, relatedSources, tempFiles>>
      ELSE Retry(times - 1, related /\ error # unableVerifyError)

\* The explorer publishes the source.
Publish ==
    /\ published' = published \cup {address}
    /\ publishedAt' = times

\* The hardhat task ends well.
RunVerified(found) ==
    /\ "verified" \in Answers(address, found)
    /\ Publish
    /\ lost' = 0
    /\ Return("verified")
    /\ Cleanup
    /\ UNCHANGED <<times, relatedSources>>

\* It is rejected; behind an error without a name there may be a publication.
RunRejected(found, related) ==
    \E error \in Answers(address, found) \ {"verified"} :
        /\ \/ UNCHANGED <<published, publishedAt>>
           \/ error \in OtherErrors /\ "verified" \in Answers(address, found) /\ Publish
        /\ lost' = IF error \in OtherErrors /\ publishedAt' # 0 THEN Min({lost + 1, Attempts}) ELSE lost
        /\ Catch(error, related)

(***************************************************************************)
(* One attempt of runTaskWithRetry.  The last one uploads all sources:     *)
(* params.relatedSources is deleted before it.                             *)
(***************************************************************************)
RunTask(found) ==
    /\ vpc = "run"
    /\ times >= 1
    /\ RunVerified(found) \/ RunRejected(found, relatedSources /\ times > 1)
    /\ UNCHANGED <<environment, address>>

\* No attempt is left: the code logs an error and returns.
GiveUp ==
    /\ vpc = "run"
    /\ times = 0
    /\ Return("exhausted")
    /\ Cleanup
    /\ UNCHANGED <<environment, address, times, relatedSources, explorer>>

VerifyStep(found) == delay \/ RunTask(found) \/ GiveUp

-----------------------------------------------------------------------------
VerificationTypeOK ==
    /\ etherscanKey \in BOOLEAN
    /\ network \in Networks
    /\ vpc \in {"delay", "run", "returned"}
    /\ address \in Addresses
    /\ times \in 0..Attempts
    /\ relatedSources \in BOOLEAN
    /\ result \in Results
    /\ tempFiles \subseteq Addresses
    /\ published \subseteq Addresses
    /\ publishedAt \in 0..Attempts
    /\ lost \in 0..Attempts

(***************************************************************************)
(* "Errors after all the retries" is logged for a contract whose source    *)
(* this call got published only when every answer since was lost: a single *)
(* answer that arrives later ends the call without an error.  Before it    *)
(* gives up the call has tried with all sources, and it leaves no          *)
(* parameter file behind.                                                  *)
(***************************************************************************)
ExhaustedOnlyUnnoticed ==
    (vpc = "returned" /\ result = "exhausted") =>
        /\ publishedAt # 0 => lost = publishedAt
        /\ ~relatedSources
        /\ address \notin tempFiles
=============================================================================
