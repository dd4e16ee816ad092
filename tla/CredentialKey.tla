--------------------------- MODULE CredentialKey ---------------------------
(***************************************************************************)
(* The key from which a server derives its sessions' credentials           *)
(* (initSessionCredentialKey, src/src/agentTurnProtocol.ts): servers of    *)
(* one state directory start, crash and restart at any time, and share     *)
(* nothing but the key file.  A server is its pid; a pid is used again     *)
(* after its process has ended, and with it the name of its temporary      *)
(* file.  One action is one file-system call.                              *)
(***************************************************************************)
EXTENDS Naturals

CONSTANTS
  Pids,
  Keys,
  None,
  Partial,       \* what a write that was cut short leaves
  ReadsFail      \* whether a file that is there may be unreadable for a moment

ASSUME KeyConstants ==
  None \notin Keys /\ Partial \notin Keys /\ None # Partial /\ ReadsFail \in BOOLEAN

VARIABLES
  file,          \* session-credential.key: its content, or None
  temp,          \* temp[p]: the content of p's temporary file, or None
  linked,        \* the pids whose temporary file is the key file itself
  pc,
  key,           \* the key p has minted or, once running, uses
  unsaved,       \* running servers that warned that their key will not survive
  trusted        \* history: the keys servers published or adopted

vars == <<file, temp, linked, pc, key, unsaved, trusted>>

\* off; minted: to be written; written: to be linked; failed: in the catch
\* block; clean: in the finally block; running: the key is installed.
States == {"off", "minted", "written", "failed", "clean", "running"}

TypeOK ==
  /\ file \in Keys \cup {None, Partial}
  /\ temp \in [Pids -> Keys \cup {None, Partial}]
  /\ linked \subseteq Pids
  /\ pc \in [Pids -> States]
  /\ key \in [Pids -> Keys \cup {None}]
  /\ unsaved \subseteq Pids
  /\ trusted \subseteq Keys

Init ==
  /\ file = None
  /\ temp = [p \in Pids |-> None]
  /\ linked = {} /\ unsaved = {} /\ trusted = {}
  /\ pc = [p \in Pids |-> "off"]
  /\ key = [p \in Pids |-> None]

\* randomBytes(32): no key twice.
Fresh(k) ==
  /\ k # file /\ k \notin trusted
  /\ \A p \in Pids : k # temp[p] /\ k # key[p]

Goto(p, s) == pc' = [pc EXCEPT ![p] = s]

\* The key of p is what its key variable holds from now on.
Install(p, k) ==
  /\ key' = [key EXCEPT ![p] = k]
  /\ trusted' = trusted \cup {k}

\* readKeyFile finds a key, or none: a file that is absent, damaged or, for
\* whatever error, unreadable.
KeyRead == file \in Keys
NoKeyRead == file \notin Keys \/ ReadsFail

\* A key that is there is adopted, otherwise one is minted.
Start(p) ==
  /\ pc[p] = "off"
  /\ \/ /\ KeyRead
        /\ Install(p, file) /\ Goto(p, "running")
     \/ /\ NoKeyRead
        /\ \E k \in Keys : Fresh(k) /\ key' = [key EXCEPT ![p] = k]
        /\ Goto(p, "minted") /\ UNCHANGED trusted
  /\ UNCHANGED <<file, temp, linked, unsaved>>

\* writeFileSync(temporary): a temporary file of an earlier process with this
\* pid is overwritten, and the key file with it, if they are one.
Overwrite(p, content) ==
  /\ temp' = [temp EXCEPT ![p] = content]
  /\ file' = IF p \in linked THEN content ELSE file

WriteTemp(p) ==
  /\ pc[p] = "minted"
  /\ \/ Overwrite(p, key[p]) /\ Goto(p, "written")
     \/ Overwrite(p, Partial) /\ Goto(p, "failed")
     \/ UNCHANGED <<temp, file>> /\ Goto(p, "failed")
  /\ UNCHANGED <<linked, key, unsaved, trusted>>

\* Fault: the key is published by a rename, which replaces what is there.
Link_Renames(p) ==
  /\ file' = temp[p] /\ Goto(p, "clean")
  /\ UNCHANGED linked

\* linkSync: publishes the complete file under its name, unless there is one.
\* It may fail for other reasons.
Link(p) ==
  \/ /\ file = None
     /\ file' = temp[p] /\ linked' = linked \cup {p} /\ Goto(p, "clean")
  \/ Goto(p, "failed") /\ UNCHANGED <<file, linked>>

Publish(p) ==
  /\ pc[p] = "written"
  /\ Link(p)
  /\ trusted' = IF pc'[p] = "clean" THEN trusted \cup {key[p]} ELSE trusted
  /\ UNCHANGED <<temp, key, unsaved>>

\* Fault: a server that lost the race keeps its own key.
Raced_OwnKey(p) == Install(p, key[p])

\* The key of the server that won the race.
Raced(p) == Install(p, file)

\* The catch block: the key of another server, or a warning.
Catch(p) ==
  /\ pc[p] = "failed"
  /\ \/ KeyRead /\ Raced(p) /\ UNCHANGED unsaved
     \/ NoKeyRead /\ unsaved' = unsaved \cup {p} /\ UNCHANGED <<key, trusted>>
  /\ Goto(p, "clean")
  /\ UNCHANGED <<file, temp, linked>>

\* The finally block: the temporary file is removed, if it can be.
CleanUp(p) ==
  /\ pc[p] = "clean"
  /\ \/ temp' = [temp EXCEPT ![p] = None] /\ linked' = linked \ {p}
     \/ UNCHANGED <<temp, linked>>
  /\ Goto(p, "running")
  /\ UNCHANGED <<file, key, unsaved, trusted>>

\* The process ends or crashes, or clears its key to initialise anew.
End(p) ==
  /\ pc[p] # "off"
  /\ Goto(p, "off")
  /\ key' = [key EXCEPT ![p] = None]
  /\ unsaved' = unsaved \ {p}
  /\ UNCHANGED <<file, temp, linked, trusted>>

Next ==
  \E p \in Pids : Start(p) \/ WriteTemp(p) \/ Publish(p) \/ Catch(p) \/ CleanUp(p) \/ End(p)

Spec == Init /\ [][Next]_vars

-----------------------------------------------------------------------------
\* Servers of one state directory end with one key, and a restart does not
\* change it: whatever credential a server issued that did not warn, every
\* server that did not warn can verify, in this run or a later one
\* (initSessionCredentialKey).
CredentialsSurvive ==
  \A p \in Pids : pc[p] = "running" /\ p \notin unsaved => trusted = {key[p]}

\* A published key never changes again, although the temporary file a crashed
\* server left may be another name of it (writeFileSync, linkSync, rmSync).
PublishedKeyFixed == [][file # None => file' = file]_file
=============================================================================
