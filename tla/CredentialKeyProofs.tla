------------------------ MODULE CredentialKeyProofs ------------------------
(***************************************************************************)
(* Proofs about CredentialKey, for any number of servers, restarts and     *)
(* keys, where a file that is there can be read.                           *)
(***************************************************************************)
EXTENDS CredentialKey, TLAPS

\* Once there is a key file, it has the one key that was ever in use.
OneKey ==
  /\ file # Partial
  /\ file = None => linked = {} /\ trusted = {}
  /\ file # None => trusted = {file}

\* What a server's state says of its key and its temporary file; a temporary
\* file that is the key file is never one that is about to be written.
KeyFits ==
  \A p \in Pids :
    /\ p \in linked => pc[p] \in {"off", "clean", "running"}
    /\ p \in unsaved => pc[p] \in {"clean", "running"}
    /\ pc[p] \in {"minted", "written", "failed"} => key[p] \in Keys
    /\ pc[p] = "written" => temp[p] = key[p]
    /\ pc[p] \in {"clean", "running"} /\ p \notin unsaved => file # None /\ key[p] = file

Inv == TypeOK /\ OneKey /\ KeyFits

LEMMA Init_Inv ==
  ASSUME Init PROVE Inv
BY KeyConstants DEF Init, Inv, TypeOK, OneKey, KeyFits, States

LEMMA Next_Inv ==
  ASSUME ~ReadsFail, Inv, [Next]_vars
  PROVE  Inv' /\ (file # None => file' = file)
<1> DEFINE Kept == Inv' /\ (file # None => file' = file)
<1> USE KeyConstants DEF Inv, TypeOK, OneKey, KeyFits, States, Goto
<1>1. ASSUME NEW p \in Pids, Start(p) PROVE Kept
  BY <1>1 DEF Start, KeyRead, NoKeyRead, Install
<1>2. ASSUME NEW p \in Pids, WriteTemp(p) PROVE Kept
  <2>1. p \notin linked
    BY <1>2 DEF WriteTemp
  <2> QED BY <1>2, <2>1 DEF WriteTemp, Overwrite
<1>3. ASSUME NEW p \in Pids, Publish(p) PROVE Kept
  <2>1. CASE file = None /\ file' = temp[p] /\ linked' = linked \cup {p}
             /\ pc' = [pc EXCEPT ![p] = "clean"]
    <3>1. trusted' = {file'} /\ file' = key[p] /\ file' \in Keys
      BY <1>3, <2>1 DEF Publish
    <3>2. \A q \in Pids : q # p => pc'[q] \notin {"clean", "running"} \/ q \in unsaved
      BY <1>3, <2>1
    <3> QED BY <1>3, <2>1, <3>1, <3>2 DEF Publish
  <2>2. CASE pc' = [pc EXCEPT ![p] = "failed"] /\ UNCHANGED <<file, linked>>
    BY <1>3, <2>2 DEF Publish
  <2> QED BY <1>3, <2>1, <2>2 DEF Publish, Link
<1>4. ASSUME NEW p \in Pids, Catch(p) PROVE Kept
  BY <1>4 DEF Catch, KeyRead, NoKeyRead, Raced, Install
<1>5. ASSUME NEW p \in Pids, CleanUp(p) PROVE Kept
  BY <1>5 DEF CleanUp
<1>6. ASSUME NEW p \in Pids, End(p) PROVE Kept
  BY <1>6 DEF End
<1>7. CASE UNCHANGED vars
  BY <1>7 DEF vars
<1> QED BY <1>1, <1>2, <1>3, <1>4, <1>5, <1>6, <1>7 DEF Next

\* What servers, files and keys have to do with each other, at every step of
\* initSessionCredentialKey, where files can be read.
THEOREM Invariant == ~ReadsFail => (Spec => []Inv)
<1>1. Init => Inv
  BY Init_Inv
<1>2. ~ReadsFail /\ Inv /\ [Next]_vars => Inv'
  BY Next_Inv
<1>3. CASE ReadsFail
  BY <1>3
<1>4. CASE ~ReadsFail
  <2>1. Inv /\ [Next]_vars => Inv'
    BY <1>2, <1>4
  <2> QED BY <1>1, <2>1, PTL DEF Spec
<1> QED BY <1>3, <1>4

\* Files and servers keep their types: a server mints, holds and trusts whole
\* keys, also when a write was cut short (initSessionCredentialKey).
THEOREM TypeCorrect == ~ReadsFail => (Spec => []TypeOK)
<1>1. Inv => TypeOK
  BY DEF Inv
<1> QED BY <1>1, Invariant, PTL

\* Every server that did not warn has the key of every other one, before and
\* after any restart (initSessionCredentialKey).
THEOREM CredentialsCorrect == ~ReadsFail => (Spec => []CredentialsSurvive)
<1>1. Inv => CredentialsSurvive
  BY DEF Inv, OneKey, KeyFits, CredentialsSurvive
<1> QED BY <1>1, Invariant, PTL

\* The published key is never overwritten, not through the temporary file of
\* a crashed server either (writeFileSync, linkSync, rmSync).
THEOREM KeyFixed == ~ReadsFail => (Spec => PublishedKeyFixed)
<1>1. SUFFICES ASSUME ~ReadsFail PROVE Spec => PublishedKeyFixed
  OBVIOUS
<1>2. Inv /\ [Next]_vars => [file # None => file' = file]_file
  BY <1>1, Next_Inv
<1>3. Spec => []Inv
  BY <1>1, Invariant
<1> QED BY <1>2, <1>3, PTL DEF Spec, PublishedKeyFixed
=============================================================================
