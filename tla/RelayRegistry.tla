--------------------------- MODULE RelayRegistry ---------------------------
(***************************************************************************)
(* One name of the registry: the files <name>.json, <name>.json.tmp and    *)
(* <name>.json.reclaim, and the processes that reserve, publish, lose,     *)
(* prune, reclaim and give up the name (src/src/relayAdapter.ts,           *)
(* src/src/relayWire.ts).  Nothing locks these files: each action is one   *)
(* file-system call, and any process may run between two of them.          *)
(***************************************************************************)
EXTENDS Naturals, FiniteSets

CONSTANTS
  Sessions,      \* one process each
  None,
  New,           \* a file just created
  Invalid,       \* content: an empty reservation, or a file cut short or torn
  Gone,          \* content: the entry of a process that has ended
  Stalls         \* whether a bind or an operation may outlast the grace window

Names == {"entry", "tmp", "claim"}

\* A file is known by the first place that refers to it: one of its names, or
\* else a process that is writing it.
Files == Names \cup Sessions

ASSUME RegistryConstants ==
  /\ Invalid \notin Sessions /\ Gone \notin Sessions /\ Gone # Invalid
  /\ None \notin Sessions \cup Names /\ New \notin Sessions \cup Names \cup {None}
  /\ Sessions \cap Names = {}
  /\ Stalls \in BOOLEAN

VARIABLES
  dir,           \* dir[n]: the file under name n, or None
  content,       \* content[i]: Invalid, Gone, or the session whose entry it is
  old,           \* files older than RECLAIM_GRACE_MS
  phase,         \* phase[s]: how far the adapter of s is
  op,            \* op[s]: the file-system call its current operation makes next
  fd,            \* fd[s]: the file it is writing
  lost           \* sessions that noticed that they lost the name

vars == <<dir, content, old, phase, op, fd, lost>>

\* starting: reserveName      binding: the name is reserved    serving: started
\* elsewhere: serving under another name                       closed: close is done
Phases == {"off", "starting", "binding", "serving", "elsewhere", "closed"}

\* look, prune: pruneDeadEntries      read, stat, claim, held, heldStat, discard,
\* restore, release: reclaimInvalidRegistryFile      create: reserveName
\* open, fill, rename: writeRegistry      check, remove: deregister
Ops == {"none", "look", "prune", "read", "stat", "claim", "held", "heldStat",
        "discard", "restore", "release", "create", "open", "fill", "rename",
        "check", "remove"}

TypeOK ==
  /\ dir \in [Names -> Files \cup {None}]
  /\ content \in [Files -> Sessions \cup {Invalid, Gone}]
  /\ old \subseteq Files
  /\ phase \in [Sessions -> Phases]
  /\ op \in [Sessions -> Ops]
  /\ fd \in [Sessions -> Files \cup {None}]
  /\ \A s \in Sessions : fd[s] # None <=> op[s] = "fill"
  /\ lost \subseteq {s \in Sessions : phase[s] \in {"serving", "closed"}}

Init ==
  /\ dir = [n \in Names |-> None]
  /\ content = [i \in Files |-> Invalid]
  /\ old = {} /\ lost = {}
  /\ phase = [s \in Sessions |-> "off"]
  /\ op = [s \in Sessions |-> "none"]
  /\ fd = [s \in Sessions |-> None]

-----------------------------------------------------------------------------
(* Files *)

Holds(n, c) == dir[n] # None /\ content[dir[n]] = c
HoldsInvalid(n) == Holds(n, Invalid)
HoldsEntry(n) == dir[n] # None /\ content[dir[n]] # Invalid

\* The file system after a call, given what names and descriptors refer to,
\* the contents and the ages: a file nothing refers to is gone.
Disk(d, f, c, o) ==
  LET Ref(x) == IF x \in Names THEN d[x] ELSE f[x]
      First(i) == IF \E n \in Names : d[n] = i
                    THEN IF d["entry"] = i THEN "entry"
                         ELSE IF d["tmp"] = i THEN "tmp" ELSE "claim"
                    ELSE CHOOSE s \in Sessions : f[s] = i
      Known(i) == IF i = None THEN None ELSE First(i)
  IN /\ dir' = [n \in Names |-> Known(d[n])]
     /\ fd' = [s \in Sessions |-> Known(f[s])]
     /\ content' = [x \in Files |-> IF Ref(x) \in Files /\ First(Ref(x)) = x
                                      THEN c[Ref(x)] ELSE Invalid]
     /\ old' = {x \in Files : Ref(x) \in o /\ First(Ref(x)) = x}

Unlink(n) == Disk([dir EXCEPT ![n] = None], fd, content, old)

\* rename(2): two names of one file are left as they are.
Rename(n, m) ==
  IF dir[n] = dir[m] THEN UNCHANGED <<dir, content, old, fd>>
  ELSE Disk([dir EXCEPT ![m] = dir[n], ![n] = None], fd, content, old)

UntouchedDisk == UNCHANGED <<dir, content, old, fd>>

Then(s, next) == op' = [op EXCEPT ![s] = next]

\* Time passes.  Without Stalls nothing that is under way takes that long.
Age(i) ==
  /\ i \notin old /\ \E n \in Names : dir[n] = i
  /\ Stalls \/ \A s \in Sessions : phase[s] # "binding" /\ op[s] = "none"
  /\ old' = old \cup {i}
  /\ UNCHANGED <<dir, content, phase, op, fd, lost>>

-----------------------------------------------------------------------------
(* pruneDeadEntries *)

Start(s) ==
  /\ phase[s] = "off"
  /\ phase' = [phase EXCEPT ![s] = "starting"]
  /\ Then(s, "look")
  /\ UntouchedDisk /\ UNCHANGED lost

\* The entry is read and its pid tested.  Every use of the registry looks.
Look(s) ==
  /\ \/ op[s] = "look"
     \/ op[s] = "none" /\ phase[s] \in {"binding", "serving", "elsewhere"} /\ Holds("entry", Gone)
  /\ Then(s, IF Holds("entry", Gone) THEN "prune" ELSE "read")
  /\ UntouchedDisk /\ UNCHANGED <<phase, lost>>

\* rmSync(file): by path, whatever is there now.
Prune(s) ==
  /\ op[s] = "prune"
  /\ Unlink("entry")
  /\ Then(s, IF phase[s] = "starting" THEN "read" ELSE "none")
  /\ UNCHANGED <<phase, lost>>

-----------------------------------------------------------------------------
(* reclaimInvalidRegistryFile *)

\* invalidBeyondGrace(file): the content, then the age.
ReadEntry(s) ==
  /\ op[s] = "read"
  /\ Then(s, IF HoldsInvalid("entry") THEN "stat" ELSE "create")
  /\ UntouchedDisk /\ UNCHANGED <<phase, lost>>

\* Fault: a file that is not valid is claimed whatever its age.
StatEntry_NoGrace(s) ==
  /\ op[s] = "stat"
  /\ Then(s, "claim")
  /\ UntouchedDisk /\ UNCHANGED <<phase, lost>>

StatEntry(s) ==
  /\ op[s] = "stat"
  /\ Then(s, IF dir["entry"] \in old THEN "claim" ELSE "create")
  /\ UntouchedDisk /\ UNCHANGED <<phase, lost>>

Claim(s) ==
  /\ op[s] = "claim"
  /\ IF dir["entry"] = None
       THEN UntouchedDisk /\ Then(s, "create")
       ELSE Rename("entry", "claim") /\ Then(s, "held")
  /\ UNCHANGED <<phase, lost>>

\* What is held is validated again.
ReadHeld(s) ==
  /\ op[s] = "held"
  /\ Then(s, IF HoldsInvalid("claim") THEN "heldStat" ELSE "restore")
  /\ UntouchedDisk /\ UNCHANGED <<phase, lost>>

\* Fault: what is held is put back whatever its age.
StatHeld_NeverOld(s) ==
  /\ op[s] = "heldStat"
  /\ Then(s, "restore")
  /\ UntouchedDisk /\ UNCHANGED <<phase, lost>>

StatHeld(s) ==
  /\ op[s] = "heldStat"
  /\ Then(s, IF dir["claim"] \in old THEN "discard" ELSE "restore")
  /\ UntouchedDisk /\ UNCHANGED <<phase, lost>>

\* linkSync: never replaces a file.
Restore(s) ==
  /\ op[s] = "restore"
  /\ IF dir["claim"] # None /\ dir["entry"] = None
       THEN Disk([dir EXCEPT !["entry"] = dir["claim"]], fd, content, old)
       ELSE UntouchedDisk
  /\ Then(s, "release")
  /\ UNCHANGED <<phase, lost>>

DropClaim(s) ==
  /\ op[s] \in {"discard", "release"}
  /\ Unlink("claim")
  /\ Then(s, "create")
  /\ UNCHANGED <<phase, lost>>

-----------------------------------------------------------------------------
(* reserveName, start *)

\* Fault: a reservation that is there is taken over.
Reserved_NotExclusive(s) ==
  /\ Disk([dir EXCEPT !["entry"] = New], fd, content, old)
  /\ phase' = [phase EXCEPT ![s] = "binding"]

\* writeFileSync with flag wx: an empty file, or the next suffix.
Reserved(s) ==
  \/ /\ dir["entry"] = None
     /\ Disk([dir EXCEPT !["entry"] = New], fd, content, old)
     /\ phase' = [phase EXCEPT ![s] = "binding"]
  \/ /\ dir["entry"] # None
     /\ UntouchedDisk
     /\ phase' = [phase EXCEPT ![s] = "elsewhere"]

Create(s) ==
  /\ op[s] = "create"
  /\ Reserved(s)
  /\ Then(s, "none")
  /\ UNCHANGED lost

\* bind fails: start closes the adapter.
BindFails(s) ==
  /\ phase[s] = "binding" /\ op[s] = "none"
  /\ Then(s, "check")
  /\ UntouchedDisk /\ UNCHANGED <<phase, lost>>

-----------------------------------------------------------------------------
(* writeRegistry: the end of start, then every heartbeat *)

NotifyOwnershipLoss(s) == lost' = lost \cup {s}

\* Fault: a name that is held by a live session is taken over.
Owns_Always(s) == TRUE

\* ownsRegistryFile: missing, invalid and dead entries may be claimed.
Owns(s) ==
  \/ ~HoldsEntry("entry")
  \/ Holds("entry", s)
  \/ Holds("entry", Gone)

\* Fault: a heartbeat leaves an entry that is gone to the next start.
WriteRegistry_Once(s) ==
  /\ phase[s] \in {"binding", "serving"} /\ op[s] = "none"
  /\ \/ Owns(s) /\ phase[s] = "binding" /\ Then(s, "open") /\ UNCHANGED lost
     \/ ~Owns(s) /\ phase[s] = "binding" /\ Then(s, "check") /\ UNCHANGED lost
     \/ ~Owns(s) /\ phase[s] = "serving" /\ NotifyOwnershipLoss(s) /\ UNCHANGED op
  /\ UntouchedDisk /\ UNCHANGED phase

WriteRegistry(s) ==
  /\ phase[s] \in {"binding", "serving"} /\ op[s] = "none"
  /\ \/ Owns(s) /\ Then(s, "open") /\ UNCHANGED lost
     \/ ~Owns(s) /\ phase[s] = "binding" /\ Then(s, "check") /\ UNCHANGED lost
     \/ ~Owns(s) /\ phase[s] = "serving" /\ NotifyOwnershipLoss(s) /\ UNCHANGED op
  /\ UntouchedDisk /\ UNCHANGED phase

\* writeFileSync(temporary): the file is created or cut to nothing...
OpenTmp(s) ==
  /\ op[s] = "open"
  /\ LET i == IF dir["tmp"] = None THEN New ELSE dir["tmp"]
     IN Disk([dir EXCEPT !["tmp"] = i], [fd EXCEPT ![s] = i],
             [x \in Files |-> IF x = i THEN Invalid ELSE content[x]], old \ {i})
  /\ Then(s, "fill")
  /\ UNCHANGED <<phase, lost>>

\* Fault: the descriptor of a write is not closed.
FillTmp_LeftOpen(s) ==
  /\ op[s] = "fill"
  /\ Disk(dir, fd, [content EXCEPT ![fd[s]] = s], old \ {fd[s]})
  /\ Then(s, "rename")
  /\ UNCHANGED <<phase, lost>>

\* ...and written.  Two entries of different length written to one file leave
\* the tail of the longer one.
FillTmp(s) ==
  /\ op[s] = "fill"
  /\ \E c \in {s, Invalid} :
       /\ content[fd[s]] = Invalid => c = s
       /\ Disk(dir, [fd EXCEPT ![s] = None], [content EXCEPT ![fd[s]] = c], old \ {fd[s]})
  /\ Then(s, "rename")
  /\ UNCHANGED <<phase, lost>>

\* renameSync(temporary, registryFile).  When another process has renamed the
\* temporary file, start fails and a heartbeat is skipped.
Publish(s) ==
  /\ op[s] = "rename"
  /\ \/ /\ dir["tmp"] # None
        /\ Rename("tmp", "entry")
        /\ phase' = [phase EXCEPT ![s] = "serving"]
        /\ Then(s, "none")
     \/ /\ dir["tmp"] = None
        /\ UntouchedDisk /\ UNCHANGED phase
        /\ Then(s, IF phase[s] = "binding" THEN "check" ELSE "none")
  /\ UNCHANGED lost

-----------------------------------------------------------------------------
(* close, deregister; the end of a process *)

Close(s) ==
  /\ phase[s] = "serving" /\ op[s] = "none"
  /\ Then(s, "check")
  /\ UntouchedDisk /\ UNCHANGED <<phase, lost>>

Deregister(s) ==
  /\ op[s] = "check"
  /\ Then(s, IF Owns(s) THEN "remove" ELSE "none")
  /\ phase' = [phase EXCEPT ![s] = IF Owns(s) THEN @ ELSE "closed"]
  /\ UntouchedDisk /\ UNCHANGED lost

Remove(s) ==
  /\ op[s] = "remove"
  /\ Unlink("entry")
  /\ phase' = [phase EXCEPT ![s] = "closed"]
  /\ Then(s, "none")
  /\ UNCHANGED lost

\* The process ends, after close or by a crash at any point, and its pid is
\* dead for processAlive from now on.  Its id then stands for a fresh one.
End(s) ==
  /\ phase[s] # "off"
  /\ phase' = [phase EXCEPT ![s] = "off"]
  /\ Then(s, "none")
  /\ Disk(dir, [fd EXCEPT ![s] = None],
          [i \in Files |-> IF content[i] = s THEN Gone ELSE content[i]], old)
  /\ lost' = lost \ {s}

-----------------------------------------------------------------------------
\* The next call of an operation under way.
Call(s) ==
  \/ op[s] = "look" /\ Look(s)
  \/ Prune(s) \/ ReadEntry(s) \/ StatEntry(s) \/ Claim(s) \/ ReadHeld(s) \/ StatHeld(s)
  \/ Restore(s) \/ DropClaim(s) \/ Create(s)
  \/ OpenTmp(s) \/ FillTmp(s) \/ Publish(s) \/ Deregister(s) \/ Remove(s)

Next ==
  \/ \E i \in Files : Age(i)
  \/ \E s \in Sessions :
       \/ Start(s) \/ Look(s) \/ Prune(s)
       \/ ReadEntry(s) \/ StatEntry(s) \/ Claim(s) \/ ReadHeld(s) \/ StatHeld(s)
       \/ Restore(s) \/ DropClaim(s)
       \/ Create(s) \/ BindFails(s)
       \/ WriteRegistry(s) \/ OpenTmp(s) \/ FillTmp(s) \/ Publish(s)
       \/ Close(s) \/ Deregister(s) \/ Remove(s) \/ End(s)

Spec == Init /\ [][Next]_vars

-----------------------------------------------------------------------------
(* Safety *)

\* A name is served by one session that does not know better.
HoldsName(s) == phase[s] = "serving" /\ s \notin lost
NameHasOneHolder == \A s, t \in Sessions : HoldsName(s) /\ HoldsName(t) => s = t

-----------------------------------------------------------------------------
(* Liveness *)

\* A process goes on with the operation it is in; the bind ends and the
\* heartbeat fires; time passes.
Fairness ==
  /\ \A s \in Sessions : WF_vars(Call(s)) /\ SF_vars(WriteRegistry(s))
  /\ SF_vars(\E i \in Files : Age(i))

FairSpec == Spec /\ Fairness

\* The operations take well under a millisecond and heartbeats are 30 seconds
\* apart: in the long run no two overlap.
Apart == <>[](Cardinality({s \in Sessions : op[s] # "none"}) <= 1)

\* Whatever races have left more than one session with a name, all but one
\* notice (writeRegistry, notifyOwnershipLoss).
LoserNotices == Apart => (~NameHasOneHolder ~> NameHasOneHolder)

\* Whatever removed or replaced its entry, a session that still holds the name
\* is listed again (heartbeatTick).
HolderListed ==
  Apart => \A s \in Sessions : HoldsName(s) ~> Holds("entry", s) \/ ~HoldsName(s)

\* A file that never became a valid entry does not keep the name from later
\* agents, as long as some get through their start (reclaimInvalidRegistryFile).
AgentsStart == []<><<\E s \in Sessions : Create(s)>>_vars
Available == HoldsEntry("entry") \/ \E s \in Sessions : phase[s] = "binding"
NameNotStuck == Apart /\ AgentsStart => (HoldsInvalid("entry") ~> Available)
=============================================================================
