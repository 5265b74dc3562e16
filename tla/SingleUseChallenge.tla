------------------------- MODULE SingleUseChallenge -------------------------
(***************************************************************************)
(* What `POST /auth/challenge` and `POST /auth/create-user` promise        *)
(* together, without requests, sessions, transactions or failures: a       *)
(* handle is issued to one pair, claimed once, and spent once; an account  *)
(* appears only in the step that spends the handle issued to its pair, and *)
(* no two accounts share a pair or a provider account.                     *)
(***************************************************************************)
CONSTANTS
  Handles,     \* challenge ids
  Pairs,       \* (issuer, subject) pairs
  Uids,        \* provider-account uids
  NoUid,       \* an anonymous identity has no provider account
  NoPair       \* the handle is not issued yet, or already spent

VARIABLES
  stage,       \* [Handles -> Stage]
  holder,      \* [Handles -> Pairs \cup {NoPair}]: who may still spend the handle
  created      \* accounts, each with the handle that paid for it

avars == <<stage, holder, created>>

Stage == {"absent", "issued", "claimed", "consumed"}

AInit ==
  /\ stage = [h \in Handles |-> "absent"]
  /\ holder = [h \in Handles |-> NoPair]
  /\ created = {}

AIssue(h, p) ==
  /\ stage[h] = "absent"
  /\ stage' = [stage EXCEPT ![h] = "issued"]
  /\ holder' = [holder EXCEPT ![h] = p]
  /\ UNCHANGED created

AClaim(h) ==
  /\ stage[h] = "issued"
  /\ stage' = [stage EXCEPT ![h] = "claimed"]
  /\ UNCHANGED <<holder, created>>

\* The attempt was rejected: the handle is spent and buys nothing.
ASpend(h) ==
  /\ stage[h] = "claimed"
  /\ stage' = [stage EXCEPT ![h] = "consumed"]
  /\ holder' = [holder EXCEPT ![h] = NoPair]
  /\ UNCHANGED created

\* The attempt succeeded: the account and the spending are one step.
ACreate(h, u) ==
  /\ stage[h] = "claimed"
  /\ \A a \in created : a.pair # holder[h] /\ (a.uid = NoUid \/ a.uid # u)
  /\ stage' = [stage EXCEPT ![h] = "consumed"]
  /\ holder' = [holder EXCEPT ![h] = NoPair]
  /\ created' = created \cup {[handle |-> h, pair |-> holder[h], uid |-> u]}

ANext ==
  \E h \in Handles :
    \/ \E p \in Pairs : AIssue(h, p)
    \/ AClaim(h)
    \/ ASpend(h)
    \/ \E u \in Uids \cup {NoUid} : ACreate(h, u)

ASpec == AInit /\ [][ANext]_avars
=============================================================================
