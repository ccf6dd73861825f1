-------------------------------- MODULE StoryApi --------------------------------
(***************************************************************************)
(* One query of the Story-API client: fetchJSON with its three attempts,   *)
(* the wrapper that turns a 404 of a list into an empty list, the decoder, *)
(* and, for registrations, the trust set Consumer makes of them.           *)
(* The node behind the URL changes while the query runs, falls ill and     *)
(* gets well: each attempt may meet anything.                              *)
(***************************************************************************)
EXTENDS Attestation, FiniteSets

CONSTANTS
    Registrations,  \* what a list may hold
    Configs         \* attestationConfig

ASSUME RegistrationsAssumption == IsFiniteSet(Registrations)

\* A report long enough has its version at the offset it is read from; a version 3
\* quote the security version too.
ASSUME ReportsAssumption ==
    \A g \in Registrations :
        LET r == g.enclaveReport
        IN  /\ r.length \in Nat
            /\ r.length >= MinQuoteSize =>
                   /\ r.quote.version \in Uint16 /\ r.version = Bytes16(r.quote.version)
                   /\ r.quote.version = DcapV3 =>
                          r.quote.isvSvn \in Uint16 /\ r.isvSvn = Bytes16(r.quote.isvSvn)

RetryAttempts == 3

VARIABLES
    kind,       \* which of the six wrappers
    signal,     \* the AbortSignal has fired
    config,     \* attestationConfig of the caller
    pc, attempt,
    wait,       \* what is left of a backoff
    now,        \* the clock, in units of RETRY_BASE_MS
    tries,      \* what each attempt met, and when
    outcome,    \* what the wrapper returns or throws
    value       \* what it returns, or could not decode

callVars == <<kind, signal, config>>
vars == <<callVars, pc, attempt, wait, now, tries, outcome, value>>

NetworkKinds == {"latest", "network"}
ListKinds == {"registrations", "verified", "partials"}
Kinds == NetworkKinds \cup ListKinds \cup {"globalPubKey"}

Stages == {"forming", "active", "ended", "failed"}

\* Fields a network of that stage may come with, out of the five that depend on it.
Conditional == {"start_block_height", "start_block_hash", "active_val_set",
                "global_public_key", "public_coeffs"}
Fields(stage) ==
    IF stage \in {"active", "ended"} THEN {Conditional}
    ELSE {{}, {"start_block_height", "start_block_hash", "active_val_set"}}

\* What the node may have of a resource.
Possible(k) ==
    CASE k \in NetworkKinds ->
            UNION {{[stage |-> t, fields |-> f] : f \in Fields(t)} : t \in Stages}
      [] k = "globalPubKey" -> {"hex", "oddHex", "badHex"}
      [] OTHER -> SUBSET Registrations

\* "absent": the node's 404.  "unrouted": the mux's, or a proxy's, plain text 404.
\* "page": another body that is not JSON.  "refusal": an error envelope, or another
\* 4xx.  "gateway": 5xx.  "cut": no connection, or a body that breaks off.
NoAnswer == {"absent", "unrouted", "page", "refusal", "gateway", "cut"}

Retryable == {"gateway", "cut"}

------------------------------------------------------------------------------
Init ==
    /\ kind \in Kinds /\ config \in Configs
    /\ signal = FALSE
    /\ pc = "attempt" /\ attempt = 0 /\ wait = 0 /\ now = 0
    /\ tries = <<>>
    /\ outcome = "none" /\ value = Unset

------------------------------------------------------------------------------
\* The caller's AbortController.
Abort ==
    /\ ~signal /\ signal' = TRUE
    /\ UNCHANGED <<kind, config, pc, attempt, wait, now, tries, outcome, value>>

------------------------------------------------------------------------------
(* fetchJSON. *)

End(how) == pc' = "over" /\ outcome' = how

\* The loop's head: an aborted query sends nothing more.
StartAttempt ==
    /\ pc = "attempt"
    /\ IF signal THEN End("aborted") ELSE pc' = "fetching" /\ UNCHANGED outcome
    /\ UNCHANGED <<callVars, attempt, wait, now, tries, value>>

\* Another attempt after RETRY_BASE_MS * 2^attempt, or the error that ended the last.
Retry(how) ==
    IF attempt < RetryAttempts - 1
      THEN pc' = "backoff" /\ wait' = 2 ^ attempt /\ UNCHANGED outcome
      ELSE End(how) /\ UNCHANGED wait

\* decodeDKGNetwork wants all five fields, hexToBytes pairs of hex digits.
Decoded(k, r) ==
    CASE k \in NetworkKinds -> IF r.fields = Conditional THEN "value" ELSE "incompleteNetwork"
      [] k = "globalPubKey" -> IF r = "hex" THEN "value" ELSE "invalidHex"
      [] OTHER -> "value"

\* Mutant: whatever a list query throws is an empty list.
ListCatchingAll(how) == IF kind \in ListKinds THEN "value" ELSE how

\* The catch clause of the three list wrappers.
ListCatching(how) == IF kind \in ListKinds /\ how = "notFound" THEN "value" ELSE how

\* What a reply that is no answer makes fetchJSON throw, without another attempt.
Thrown(met) == IF met \in {"absent", "unrouted"} THEN "notFound" ELSE "apiError"

\* The status and the body are here, or the connection is lost.
Receive ==
    /\ pc = "fetching"
    /\ \/ \E r \in Possible(kind) :
            /\ tries' = Append(tries, [met |-> "answer", at |-> now])
            /\ End(Decoded(kind, r))
            /\ value' = r
            /\ UNCHANGED wait
       \/ \E met \in NoAnswer \ Retryable :
            /\ tries' = Append(tries, [met |-> met, at |-> now])
            /\ End(ListCatching(Thrown(met)))
            /\ value' = IF kind \in ListKinds THEN {} ELSE Unset
            /\ UNCHANGED wait
       \/ /\ tries' = Append(tries, [met |-> "gateway", at |-> now])
          /\ Retry(ListCatching("serverError"))
          /\ UNCHANGED value
       \/ /\ tries' = Append(tries, [met |-> "cut", at |-> now])
          /\ IF signal THEN End(ListCatching("networkError")) /\ UNCHANGED wait
                       ELSE Retry(ListCatching("networkError"))
          /\ UNCHANGED value
    /\ UNCHANGED <<callVars, attempt, now>>

\* A fetch given the signal rejects, whatever the node is about to say.
FetchAborted ==
    /\ pc = "fetching" /\ signal
    /\ End("aborted")
    /\ UNCHANGED <<callVars, attempt, wait, now, tries, value>>

\* The backoff is not cut short by the signal.
Tick ==
    /\ pc = "backoff" /\ wait > 0
    /\ wait' = wait - 1
    /\ now' = now + 1
    /\ UNCHANGED <<callVars, pc, attempt, tries, outcome, value>>

NextAttempt ==
    /\ pc = "backoff" /\ wait = 0
    /\ attempt' = attempt + 1
    /\ pc' = "attempt"
    /\ UNCHANGED <<callVars, wait, now, tries, outcome, value>>

------------------------------------------------------------------------------
(* What Observer and Consumer make of the registrations. *)

StatusFinalized == 2

\* loadRegistrations keeps the finalized ones, getTrustSet those that attest.
TrustSet == {g.validatorAddr : g \in {h \in value :
                /\ h.status = StatusFinalized
                /\ VerifyAttestation(h.enclaveReport, config)}}

------------------------------------------------------------------------------
Client == StartAttempt \/ Receive \/ FetchAborted \/ NextAttempt

Next == Client \/ Tick \/ Abort

Spec == Init /\ [][Next]_vars

------------------------------------------------------------------------------
(* Properties. *)

Met(i) == tries[i].met

\* What a query comes back with is what its last attempt met, and everything before
\* that was an outage: an outage is reported only after three attempts spread over
\* three units of backoff, unless the caller aborted; a definitive answer is never
\* asked for again; and an empty list means that the node said so, or that there is
\* no such path, never that it could not be reached.
OutcomeIsEarned ==
    LET last == Len(tries)
    IN  /\ \A i \in 1..(last - 1) : Met(i) \in Retryable
        /\ pc \in {"attempt", "fetching"} \/ outcome = "aborted" \/ last > 0
        /\ outcome \in {"serverError", "networkError"} =>
               /\ Met(last) = IF outcome = "serverError" THEN "gateway" ELSE "cut"
               /\ signal \/ (last = RetryAttempts /\ tries[2].at = 1 /\ tries[3].at = 3)
        /\ outcome = "value" =>
               \/ Met(last) = "answer"
               \/ kind \in ListKinds /\ value = {} /\ Met(last) \in {"absent", "unrouted"}

\* With attestationConfig a partial is taken from a validator just when it is finalized
\* in the round and its report is a version 3 quote, long enough to hold what is read
\* from it, with the measurements and at least the security version asked for.
TrustIsEarned ==
    kind = "registrations" /\ outcome = "value" =>
        \A g \in value :
            g.validatorAddr \in TrustSet <=>
                    \E h \in value :
                        /\ h.validatorAddr = g.validatorAddr
                        /\ h.status = StatusFinalized
                        /\ h.enclaveReport.quote.version = 3
                        /\ h.enclaveReport.length >= 432
                        /\ config.expectedMrEnclave # Unset =>
                              h.enclaveReport.mrEnclave = config.expectedMrEnclave
                        /\ config.expectedMrSigner # Unset =>
                              h.enclaveReport.mrSigner = config.expectedMrSigner
                        /\ config.minSecurityVersion # Unset =>
                              h.enclaveReport.quote.isvSvn >= config.minSecurityVersion
=============================================================================
