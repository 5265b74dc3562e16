----------------------------- MODULE ProviderRead -----------------------------
(***************************************************************************)
(* One run of lookup_with_retry: getUser of the Firebase account through   *)
(* the app its issuer selects, the classification of what was read, and    *)
(* the retries, while the account's owner may link, unlink or delete it.   *)
(* AccountCreation abstracts each attempt to its outcome.                  *)
(***************************************************************************)
EXTENDS Integers, Sequences

CONSTANTS
  Recognized,      \* google.com and apple.com
  Others,          \* provider ids that are not recognized
  Uids,            \* provider account ids
  EmptyUid,        \* ""
  NoUid,           \* provider_uid NULL
  Addresses,       \* e-mail addresses
  BlankEmail,      \* an address of spaces
  NoEmail,         \* no address
  Gone,            \* Firebase has no such account
  LookupAttempts   \* FIREBASE_LOOKUP_ATTEMPTS

ASSUME ReadAssumption ==
  /\ Recognized \cap Others = {} /\ "anonymous" \notin Recognized
  /\ {EmptyUid, NoUid} \cap Uids = {} /\ EmptyUid # NoUid
  /\ {BlankEmail, NoEmail} \cap Addresses = {} /\ BlankEmail # NoEmail
  /\ LookupAttempts \in Nat \ {0}

VARIABLES
  app,      \* an Admin app was built for the issuer
  account,  \* the account as Firebase holds it
  pc,       \* where the lookup is: calling or done
  calls,    \* getUser calls made
  read,     \* what the last call that was answered read
  outcome,  \* how the lookup ended
  identity  \* the VerifiedProviderIdentity of an accepted one

vars == <<app, account, pc, calls, read, outcome, identity>>

Entry == [provider : Recognized \cup Others, uid : Uids \cup {EmptyUid}]
Account == [data : UNION {[1..n -> Entry] : n \in 0..2},
            email : Addresses \cup {BlankEmail, NoEmail}, verified : BOOLEAN]
NoRead == [data |-> <<>>, email |-> NoEmail, verified |-> FALSE]

Anonymous == [provider |-> "anonymous", uid |-> NoUid, email |-> NoEmail]

Init ==
  /\ app \in BOOLEAN
  /\ account \in Account
  /\ pc = "calling" /\ calls = 0 /\ read = NoRead
  /\ outcome = "none" /\ identity = Anonymous

-----------------------------------------------------------------------------
(* Classification.                                                         *)

\* Mutant: the first entry is taken.
FirstTaken(data) ==
  IF data = <<>> THEN {[provider |-> "anonymous", uid |-> NoUid]}
  ELSE IF data[1].provider \notin Recognized \/ data[1].uid = EmptyUid THEN {}
  ELSE {data[1]}

\* _resolve_provider: one classification, or none.
Resolved(data) ==
  IF data = <<>> THEN {[provider |-> "anonymous", uid |-> NoUid]}
  ELSE IF Len(data) # 1 \/ data[1].provider \notin Recognized \/ data[1].uid = EmptyUid THEN {}
  ELSE {data[1]}

\* _verified_email: copied as it is, or dropped.
VerifiedEmail(a) ==
  IF a.email \in {NoEmail, BlankEmail} \/ ~a.verified THEN NoEmail ELSE a.email

-----------------------------------------------------------------------------
(* Attempts.                                                               *)

End(o) == pc' = "done" /\ outcome' = o

Reject(code) == End(code) /\ UNCHANGED identity

Call == pc = "calling" /\ app /\ calls' = calls + 1 /\ UNCHANGED <<app, account>>

\* retry_if_exception_type(RetryableLookupError), then _exhausted.
Retry ==
  IF calls' < LookupAttempts THEN UNCHANGED <<pc, outcome, identity>>
                              ELSE Reject("unavailable")

NoApp ==
  /\ pc = "calling" /\ ~app
  /\ Reject("unavailable")
  /\ UNCHANGED <<app, account, calls, read>>

NotFound == Call /\ account = Gone /\ Reject("user_not_found") /\ UNCHANGED read

\* A credential or Firebase error, whatever the account.
ReadFails == Call /\ Retry /\ UNCHANGED read

\* An entry with an empty id raises when the SDK materializes it.
Malformed ==
  /\ Call /\ account # Gone
  /\ \E i \in 1..Len(account.data) : account.data[i].uid = EmptyUid
  /\ read' = account
  /\ Retry

\* Every field comes off the one response.
Classify ==
  /\ Call /\ account # Gone
  /\ read' = account
  /\ \/ Resolved(account.data) = {} /\ Reject("not_linked")
     \/ \E p \in Resolved(account.data) :
          /\ End("accepted")
          /\ identity' = [provider |-> p.provider, uid |-> p.uid, email |-> VerifiedEmail(account)]

\* The owner changes the account at any moment.
Change ==
  /\ pc = "calling"
  /\ account' \in Account \cup {Gone}
  /\ UNCHANGED <<app, pc, calls, read, outcome, identity>>

Stop == pc = "done" /\ UNCHANGED vars

Next == NoApp \/ NotFound \/ ReadFails \/ Malformed \/ Classify \/ Change \/ Stop

Spec == Init /\ [][Next]_vars

-----------------------------------------------------------------------------
(* Properties.                                                             *)

Usable(e) == e.provider \in Recognized /\ e.uid \in Uids

\* The CHECK of core.external_identities.
FitsCheck(i) == IF i.provider = "anonymous" THEN i.uid = NoUid ELSE Usable(i)

\* An accepted identity can be stored and is all that the account had linked: one
\* with anything linked never passes for anonymous, two links never for one, and
\* an address is taken only if Firebase verified it. An account is rejected as
\* not linked only for its shape, and given up only after the whole budget or
\* for want of an app.
OutcomeIsTruthful ==
  pc = "done" =>
    /\ outcome = "accepted" =>
         /\ FitsCheck(identity)
         /\ Len(read.data) = (IF identity.provider = "anonymous" THEN 0 ELSE 1)
         /\ identity.email # NoEmail => read.verified /\ identity.email \in Addresses
    /\ outcome = "not_linked" =>
         read.data # <<>> /\ ~\E e \in Entry : Usable(e) /\ read.data = <<e>>
    /\ outcome = "unavailable" => calls = (IF app THEN LookupAttempts ELSE 0)
    /\ calls <= LookupAttempts
=============================================================================
