------------------------ MODULE RelayRegistryProofs ------------------------
(***************************************************************************)
(* What the registry promises of a name, for any number of sessions: as    *)
(* long as no process has crashed and nothing outlasts the grace window    *)
(* while it is under way, the name is a lock (module NameLock).            *)
(***************************************************************************)
EXTENDS RegistryHistory, TLAPS

-----------------------------------------------------------------------------
(* A call to the file system *)

Refs == Files \cup {None, New}

\* Disk names each file after the first place that refers to it.
FirstRef(d, f, i) ==
  IF \E n \in Names : d[n] = i
    THEN IF d["entry"] = i THEN "entry" ELSE IF d["tmp"] = i THEN "tmp" ELSE "claim"
    ELSE CHOOSE s \in Sessions : f[s] = i

RefAt(d, f, x) == IF x \in Names THEN d[x] ELSE f[x]

KnownAs(d, f, i) == IF i = None THEN None ELSE FirstRef(d, f, i)

LEMMA DiskNames ==
  ASSUME NEW d, NEW f, NEW c, NEW o, Disk(d, f, c, o)
  PROVE  /\ dir' = [n \in Names |-> KnownAs(d, f, d[n])]
         /\ fd' = [s \in Sessions |-> KnownAs(d, f, f[s])]
         /\ content' = [x \in Files |->
              IF RefAt(d, f, x) \in Files /\ FirstRef(d, f, RefAt(d, f, x)) = x
                THEN c[RefAt(d, f, x)] ELSE Invalid]
         /\ old' = {x \in Files : RefAt(d, f, x) \in o /\ FirstRef(d, f, RefAt(d, f, x)) = x}
BY DEF Disk, FirstRef, RefAt, KnownAs

\* The first place that refers to a file does refer to it.
LEMMA FirstRefers ==
  ASSUME NEW d \in [Names -> Refs], NEW f \in [Sessions -> Refs], NEW i,
         (\E n \in Names : d[n] = i) \/ (\E s \in Sessions : f[s] = i)
  PROVE  FirstRef(d, f, i) \in Files /\ RefAt(d, f, FirstRef(d, f, i)) = i
<1>1. CASE \E n \in Names : d[n] = i
  BY <1>1 DEF FirstRef, RefAt, Names, Files
<1>2. CASE ~\E n \in Names : d[n] = i
  <2> DEFINE t == CHOOSE s \in Sessions : f[s] = i
  <2>1. t \in Sessions /\ f[t] = i
    BY <1>2
  <2>2. FirstRef(d, f, i) = t
    BY <1>2 DEF FirstRef
  <2>3. t \notin Names
    BY <2>1, RegistryConstants
  <2> HIDE DEF t
  <2> QED BY <2>1, <2>2, <2>3 DEF RefAt, Files
<1> QED BY <1>1, <1>2

Contents == Sessions \cup {Invalid, Gone}

\* A file just created is empty.
ContentOf(c, i) == IF i \in Files THEN c[i] ELSE Invalid

\* Names and descriptors refer after the call to the files they were given, with
\* the contents and the ages they were given; no other file has content.
DiskBecomes(d, f, c, o) ==
  /\ \A n \in Names : dir'[n] = None <=> d[n] = None
  /\ \A s \in Sessions : fd'[s] = None <=> f[s] = None
  /\ \A n, m \in Names : dir'[n] = dir'[m] <=> d[n] = d[m]
  /\ \A n \in Names, s \in Sessions : dir'[n] = fd'[s] <=> d[n] = f[s]
  /\ \A n \in Names : d[n] # None => content'[dir'[n]] = ContentOf(c, d[n])
  /\ \A n \in Names : dir'[n] \in old' <=> d[n] \in o
  /\ \A i \in Files : \/ content'[i] = Invalid
                      \/ \E n \in Names : dir'[n] = i
                      \/ \E s \in Sessions : fd'[s] = i

DiskTypeOK ==
  /\ dir \in [Names -> Files \cup {None}]
  /\ fd \in [Sessions -> Files \cup {None}]
  /\ content \in [Files -> Contents]
  /\ old \subseteq Files

LEMMA DiskEffect ==
  ASSUME NEW d \in [Names -> Refs], NEW f \in [Sessions -> Refs],
         NEW c \in [Files -> Contents], NEW o \in SUBSET Files, Disk(d, f, c, o)
  PROVE  DiskTypeOK' /\ DiskBecomes(d, f, c, o)
<1> DEFINE Used(i) == (\E n \in Names : d[n] = i) \/ (\E s \in Sessions : f[s] = i)
           First(i) == FirstRef(d, f, i)
<1>0. Names \subseteq Files /\ Sessions \subseteq Files /\ None \notin Files
  BY RegistryConstants DEF Files
<1>1. /\ dir' = [n \in Names |-> KnownAs(d, f, d[n])]
      /\ fd' = [s \in Sessions |-> KnownAs(d, f, f[s])]
      /\ content' = [x \in Files |->
           IF RefAt(d, f, x) \in Files /\ First(RefAt(d, f, x)) = x
             THEN c[RefAt(d, f, x)] ELSE Invalid]
      /\ old' = {x \in Files : RefAt(d, f, x) \in o /\ First(RefAt(d, f, x)) = x}
  BY DiskNames
<1>2. \A i : Used(i) => First(i) \in Files /\ RefAt(d, f, First(i)) = i
  BY FirstRefers
<1>3. (\A n \in Names : Used(d[n])) /\ (\A s \in Sessions : Used(f[s]))
  OBVIOUS
<1> HIDE DEF Used, First
<1>4. DiskTypeOK'
  <2>1. dir' \in [Names -> Files \cup {None}] /\ fd' \in [Sessions -> Files \cup {None}]
    BY <1>1, <1>2, <1>3 DEF KnownAs, First
  <2>2. content' \in [Files -> Contents]
    BY <1>1 DEF Contents
  <2>3. old' \subseteq Files
    BY <1>1
  <2> QED BY <2>1, <2>2, <2>3 DEF DiskTypeOK
<1>5. \A i, j : Used(i) /\ Used(j) => (KnownAs(d, f, i) = KnownAs(d, f, j) <=> i = j)
  BY <1>0, <1>2 DEF KnownAs, First
<1>6. \A i : Used(i) /\ i # None => content'[KnownAs(d, f, i)] = ContentOf(c, i)
  BY <1>1, <1>2 DEF KnownAs, ContentOf, First
<1>7. \A i : Used(i) => (KnownAs(d, f, i) \in old' <=> i \in o)
  BY <1>0, <1>1, <1>2 DEF KnownAs, First
<1>8. \A i : Used(i) => (KnownAs(d, f, i) = None <=> i = None)
  BY <1>0, <1>2 DEF KnownAs, First
<1>9. \A x \in Files : content'[x] # Invalid => KnownAs(d, f, RefAt(d, f, x)) = x
  BY <1>0, <1>1 DEF KnownAs, First
<1>10. \A x \in Files : RefAt(d, f, x) = IF x \in Names THEN d[x] ELSE f[x]
  BY DEF RefAt
<1>11. \A x \in Files : \/ content'[x] = Invalid
                        \/ \E n \in Names : dir'[n] = x
                        \/ \E s \in Sessions : fd'[s] = x
  BY <1>1, <1>9, <1>10 DEF Files
<1> QED BY <1>1, <1>3, <1>4, <1>5, <1>6, <1>7, <1>8, <1>11 DEF DiskBecomes

LEMMA SameDisk ==
  ASSUME DiskTypeOK, UntouchedDisk
  PROVE  DiskTypeOK' /\ \A t \in Sessions : fd'[t] = fd[t]
BY DEF DiskTypeOK, UntouchedDisk

\* Only the names change hands.
LEMMA NamesEffect ==
  ASSUME DiskTypeOK, NEW d \in [Names -> Refs], Disk(d, fd, content, old)
  PROVE  DiskTypeOK' /\ DiskBecomes(d, fd, content, old)
<1>1. fd \in [Sessions -> Refs] /\ content \in [Files -> Contents] /\ old \in SUBSET Files
  BY DEF DiskTypeOK, Refs
<1> QED BY <1>1, DiskEffect

LEMMA UnlinkEffect ==
  ASSUME DiskTypeOK, NEW n \in Names, Unlink(n)
  PROVE  DiskTypeOK' /\ DiskBecomes([dir EXCEPT ![n] = None], fd, content, old)
<1>1. [dir EXCEPT ![n] = None] \in [Names -> Refs]
  BY DEF DiskTypeOK, Refs
<1> QED BY <1>1, NamesEffect DEF Unlink

LEMMA RenameEffect ==
  ASSUME DiskTypeOK, NEW n \in Names, NEW m \in Names, Rename(n, m), dir[n] # dir[m]
  PROVE  /\ DiskTypeOK'
         /\ DiskBecomes([dir EXCEPT ![m] = dir[n], ![n] = None], fd, content, old)
<1>1. [dir EXCEPT ![m] = dir[n], ![n] = None] \in [Names -> Refs]
  BY DEF DiskTypeOK, Refs
<1> QED BY <1>1, NamesEffect DEF Rename

LEMMA CreateEffect ==
  ASSUME DiskTypeOK, Disk([dir EXCEPT !["entry"] = New], fd, content, old)
  PROVE  /\ DiskTypeOK'
         /\ DiskBecomes([dir EXCEPT !["entry"] = New], fd, content, old)
<1>1. [dir EXCEPT !["entry"] = New] \in [Names -> Refs]
  BY DEF DiskTypeOK, Refs
<1> QED BY <1>1, NamesEffect

LEMMA OpenEffect ==
  ASSUME DiskTypeOK, NEW s \in Sessions, OpenTmp(s)
  PROVE  \E i \in Refs \ {None} :
           /\ dir["tmp"] # None => i = dir["tmp"]
           /\ dir["tmp"] = None => i = New
           /\ DiskTypeOK'
           /\ DiskBecomes([dir EXCEPT !["tmp"] = i], [fd EXCEPT ![s] = i],
                [x \in Files |-> IF x = i THEN Invalid ELSE content[x]], old \ {i})
<1> DEFINE i == IF dir["tmp"] = None THEN New ELSE dir["tmp"]
           d == [dir EXCEPT !["tmp"] = i]
           f == [fd EXCEPT ![s] = i]
           c == [x \in Files |-> IF x = i THEN Invalid ELSE content[x]]
<1>1. "tmp" \in Names /\ New # None
  BY RegistryConstants DEF Names
<1>2. i \in Refs \ {None}
  BY <1>1 DEF DiskTypeOK, Refs
<1>3. d \in [Names -> Refs] /\ f \in [Sessions -> Refs] /\ c \in [Files -> Contents]
  BY <1>2 DEF DiskTypeOK, Refs, Contents
<1>4. old \ {i} \in SUBSET Files
  BY DEF DiskTypeOK
<1>5. Disk(d, f, c, old \ {i})
  BY DEF OpenTmp
<1>6. DiskTypeOK' /\ DiskBecomes(d, f, c, old \ {i})
  BY <1>3, <1>4, <1>5, DiskEffect
<1> QED BY <1>2, <1>6

LEMMA FillEffect ==
  ASSUME DiskTypeOK, NEW s \in Sessions, fd[s] \in Files, FillTmp(s)
  PROVE  \E b \in {s, Invalid} :
           /\ content[fd[s]] = Invalid => b = s
           /\ DiskTypeOK'
           /\ DiskBecomes(dir, [fd EXCEPT ![s] = None], [content EXCEPT ![fd[s]] = b],
                          old \ {fd[s]})
<1>1. PICK b \in {s, Invalid} :
        /\ content[fd[s]] = Invalid => b = s
        /\ Disk(dir, [fd EXCEPT ![s] = None], [content EXCEPT ![fd[s]] = b], old \ {fd[s]})
  BY DEF FillTmp
<1>2. dir \in [Names -> Refs] /\ [fd EXCEPT ![s] = None] \in [Sessions -> Refs]
  BY DEF DiskTypeOK, Refs
<1>3. [content EXCEPT ![fd[s]] = b] \in [Files -> Contents]
  BY DEF DiskTypeOK, Contents
<1>4. old \ {fd[s]} \in SUBSET Files
  BY DEF DiskTypeOK
<1>5. DiskTypeOK' /\ DiskBecomes(dir, [fd EXCEPT ![s] = None], [content EXCEPT ![fd[s]] = b],
                                 old \ {fd[s]})
  BY <1>1, <1>2, <1>3, <1>4, DiskEffect
<1> QED BY <1>1, <1>5

LEMMA EndEffect ==
  ASSUME DiskTypeOK, NEW s \in Sessions, End(s)
  PROVE  /\ DiskTypeOK'
         /\ DiskBecomes(dir, [fd EXCEPT ![s] = None],
              [i \in Files |-> IF content[i] = s THEN Gone ELSE content[i]], old)
<1> DEFINE c == [i \in Files |-> IF content[i] = s THEN Gone ELSE content[i]]
<1>1. dir \in [Names -> Refs] /\ [fd EXCEPT ![s] = None] \in [Sessions -> Refs]
  BY DEF DiskTypeOK, Refs
<1>2. c \in [Files -> Contents] /\ old \in SUBSET Files
  BY DEF DiskTypeOK, Contents
<1>3. Disk(dir, [fd EXCEPT ![s] = None], c, old)
  BY DEF End
<1> QED BY <1>1, <1>2, <1>3, DiskEffect

-----------------------------------------------------------------------------
(* Types, and the course of an adapter *)

\* Which operations an adapter can be in, depending on how far it is.
StartOps == {"look", "read", "stat", "claim", "held", "heldStat", "discard", "restore",
             "release", "create"}
WriteOps == {"open", "fill", "rename", "check", "remove"}

Course(s) ==
  /\ op[s] \in StartOps => phase[s] = "starting"
  /\ op[s] = "prune" => phase[s] \in {"starting", "binding", "serving", "elsewhere"}
  /\ op[s] \in WriteOps => phase[s] \in {"binding", "serving"}

CourseOK ==
  /\ phase \in [Sessions -> Phases]
  /\ op \in [Sessions -> Ops]
  /\ lost \subseteq {s \in Sessions : phase[s] \in {"serving", "closed"}}
  /\ \A s \in Sessions : Course(s)

WritersOnly == \A s \in Sessions : fd[s] # None <=> op[s] = "fill"

Inv == DiskTypeOK /\ CourseOK /\ WritersOnly

\* The steps that leave the files as they are, those that move names, and the
\* rest.
LooksOnly(s) ==
  \/ Start(s) \/ Look(s) \/ ReadEntry(s) \/ StatEntry(s) \/ ReadHeld(s) \/ StatHeld(s)
  \/ BindFails(s) \/ WriteRegistry(s) \/ Close(s) \/ Deregister(s)

MovesNames(s) ==
  Prune(s) \/ Claim(s) \/ Restore(s) \/ DropClaim(s) \/ Create(s) \/ Publish(s) \/ Remove(s)

LEMMA Steps ==
  ASSUME Next
  PROVE  \/ \E i \in Files : Age(i)
         \/ \E s \in Sessions : \/ LooksOnly(s) \/ MovesNames(s)
                                \/ OpenTmp(s) \/ FillTmp(s) \/ End(s)
BY DEF Next, LooksOnly, MovesNames

LEMMA MoveEffect ==
  ASSUME DiskTypeOK, NEW s \in Sessions, MovesNames(s)
  PROVE  DiskTypeOK' /\ \A t \in Sessions : fd'[t] = None <=> fd[t] = None
<1> DEFINE Kept == DiskTypeOK' /\ \A t \in Sessions : fd'[t] = None <=> fd[t] = None
<1>0. "entry" \in Names /\ "tmp" \in Names /\ "claim" \in Names
  BY DEF Names
<1>1. UntouchedDisk => Kept
  BY SameDisk
<1>2. ASSUME NEW n \in Names, Unlink(n) PROVE Kept
  BY <1>2, UnlinkEffect DEF DiskBecomes
<1>3. ASSUME NEW n \in Names, NEW m \in Names, Rename(n, m) PROVE Kept
  <2>1. CASE dir[n] = dir[m]
    BY <1>1, <1>3, <2>1 DEF Rename, UntouchedDisk
  <2>2. CASE dir[n] # dir[m]
    BY <1>3, <2>2, RenameEffect DEF DiskBecomes
  <2> QED BY <2>1, <2>2
<1>4. CASE Prune(s) \/ DropClaim(s) \/ Remove(s)
  BY <1>0, <1>2, <1>4 DEF Prune, DropClaim, Remove
<1>5. CASE Claim(s) \/ Publish(s)
  BY <1>0, <1>1, <1>3, <1>5 DEF Claim, Publish
<1>6. CASE Restore(s)
  <2> DEFINE d == [dir EXCEPT !["entry"] = dir["claim"]]
  <2>1. d \in [Names -> Refs]
    BY <1>0 DEF DiskTypeOK, Refs
  <2>2. Disk(d, fd, content, old) => Kept
    BY <2>1, NamesEffect DEF DiskBecomes
  <2> QED BY <1>1, <1>6, <2>2 DEF Restore
<1>7. CASE Create(s)
  <2>1. Disk([dir EXCEPT !["entry"] = New], fd, content, old) => Kept
    BY CreateEffect DEF DiskBecomes
  <2> QED BY <1>1, <1>7, <2>1 DEF Create, Reserved
<1> QED BY <1>4, <1>5, <1>6, <1>7 DEF MovesNames

LEMMA Inv_Step ==
  ASSUME Inv, [Next]_vars
  PROVE  Inv'
<1> USE DEF Inv
<1>1. CASE UNCHANGED vars
  BY <1>1 DEF vars, DiskTypeOK, CourseOK, WritersOnly, Course
<1>2. ASSUME NEW i \in Files, Age(i) PROVE Inv'
  BY <1>2 DEF Age, DiskTypeOK, CourseOK, WritersOnly, Course
<1>3. ASSUME NEW s \in Sessions, LooksOnly(s) PROVE Inv'
  <2>1. DiskTypeOK' /\ fd' = fd
    BY <1>3, SameDisk DEF LooksOnly, Start, Look, ReadEntry, StatEntry, ReadHeld, StatHeld,
       BindFails, WriteRegistry, Close, Deregister, UntouchedDisk
  <2>2. CourseOK' /\ \A t \in Sessions : op'[t] = "fill" <=> op[t] = "fill"
    <3>1. CASE Start(s) \/ Look(s)
      BY <1>3, <3>1 DEF Start, Look, Then, CourseOK, Course, Phases, Ops, StartOps, WriteOps
    <3>2. CASE ReadEntry(s) \/ StatEntry(s) \/ ReadHeld(s) \/ StatHeld(s)
      BY <3>2 DEF ReadEntry, StatEntry, ReadHeld, StatHeld, Then, CourseOK, Course, Phases,
         Ops, StartOps, WriteOps
    <3>3. CASE BindFails(s) \/ Close(s)
      BY <3>3 DEF BindFails, Close, Then, CourseOK, Course, Phases, Ops, StartOps, WriteOps
    <3>4. CASE WriteRegistry(s)
      BY <3>4 DEF WriteRegistry, NotifyOwnershipLoss, Then, CourseOK, Course, Phases, Ops,
         StartOps, WriteOps
    <3>5. CASE Deregister(s)
      BY <3>5 DEF Deregister, Then, CourseOK, Course, Phases, Ops, StartOps, WriteOps
    <3> QED BY <1>3, <3>1, <3>2, <3>3, <3>4, <3>5 DEF LooksOnly
  <2> QED BY <2>1, <2>2 DEF WritersOnly
<1>4. ASSUME NEW s \in Sessions, MovesNames(s) PROVE Inv'
  <2>1. DiskTypeOK' /\ \A t \in Sessions : fd'[t] = None <=> fd[t] = None
    BY <1>4, MoveEffect
  <2>2. CourseOK'
    <3>1. CASE Prune(s) \/ Claim(s) \/ Restore(s) \/ DropClaim(s)
      BY <3>1 DEF Prune, Claim, Restore, DropClaim, Then, CourseOK, Course, Phases, Ops,
         StartOps, WriteOps
    <3>2. CASE Create(s)
      BY <3>2 DEF Create, Reserved, Then, CourseOK, Course, Phases, Ops, StartOps, WriteOps
    <3>3. CASE Publish(s) \/ Remove(s)
      BY <3>3 DEF Publish, Remove, Then, CourseOK, Course, Phases, Ops, StartOps, WriteOps
    <3> QED BY <1>4, <3>1, <3>2, <3>3 DEF MovesNames
  <2>3. \A t \in Sessions : op'[t] = "fill" <=> op[t] = "fill"
    BY <1>4 DEF MovesNames, Prune, Claim, Restore, DropClaim, Create, Reserved, Publish, Remove,
       Then, CourseOK, Ops
  <2> QED BY <2>1, <2>2, <2>3 DEF WritersOnly
<1>5. ASSUME NEW s \in Sessions, OpenTmp(s) PROVE Inv'
  <2>1. DiskTypeOK' /\ \A t \in Sessions : fd'[t] = None <=> (t # s /\ fd[t] = None)
    <3>1. PICK i \in Refs \ {None} :
            DiskTypeOK' /\ \A t \in Sessions : fd'[t] = None <=> [fd EXCEPT ![s] = i][t] = None
      BY <1>5, OpenEffect DEF DiskBecomes
    <3> QED BY <3>1 DEF DiskTypeOK
  <2>2. CourseOK' /\ \A t \in Sessions : op'[t] = "fill" <=> (t = s \/ op[t] = "fill")
    BY <1>5 DEF OpenTmp, Then, CourseOK, Course, Phases, Ops, StartOps, WriteOps
  <2> QED BY <2>1, <2>2 DEF WritersOnly
<1>6. ASSUME NEW s \in Sessions, FillTmp(s) PROVE Inv'
  <2>0. fd[s] \in Files
    BY <1>6 DEF FillTmp, WritersOnly, DiskTypeOK
  <2>1. DiskTypeOK' /\ \A t \in Sessions : fd'[t] = None <=> (t = s \/ fd[t] = None)
    <3>1. DiskTypeOK' /\ \A t \in Sessions : fd'[t] = None <=> [fd EXCEPT ![s] = None][t] = None
      BY <1>6, <2>0, FillEffect DEF DiskBecomes
    <3> QED BY <3>1 DEF DiskTypeOK
  <2>2. CourseOK' /\ \A t \in Sessions : op'[t] = "fill" <=> (t # s /\ op[t] = "fill")
    BY <1>6 DEF FillTmp, Then, CourseOK, Course, Phases, Ops, StartOps, WriteOps
  <2> QED BY <2>1, <2>2 DEF WritersOnly
<1>7. ASSUME NEW s \in Sessions, End(s) PROVE Inv'
  <2>1. DiskTypeOK' /\ \A t \in Sessions : fd'[t] = None <=> (t = s \/ fd[t] = None)
    <3>1. DiskTypeOK' /\ \A t \in Sessions : fd'[t] = None <=> [fd EXCEPT ![s] = None][t] = None
      BY <1>7, EndEffect DEF DiskBecomes
    <3> QED BY <3>1 DEF DiskTypeOK
  <2>2. CourseOK' /\ \A t \in Sessions : op'[t] = "fill" <=> (t # s /\ op[t] = "fill")
    BY <1>7 DEF End, Then, CourseOK, Course, Phases, Ops, StartOps, WriteOps
  <2> QED BY <2>1, <2>2 DEF WritersOnly
<1> QED BY <1>1, <1>2, <1>3, <1>4, <1>5, <1>6, <1>7, Steps

LEMMA Inv_Init == Init => Inv
BY RegistryConstants DEF Init, Inv, DiskTypeOK, Contents, CourseOK, Course, WritersOnly, Phases, Ops,
   StartOps, WriteOps

LEMMA Invariant == Spec => []Inv
BY Inv_Init, Inv_Step, PTL DEF Spec

\* Every reachable state of the registry is well typed, and a process has a file
\* open exactly while it writes it (writeRegistry).
THEOREM TypeCorrect == Spec => []TypeOK
<1>1. Inv => TypeOK
  BY DEF Inv, DiskTypeOK, Contents, CourseOK, WritersOnly, TypeOK
<1> QED BY <1>1, Invariant, PTL

-----------------------------------------------------------------------------
(* While no process has crashed *)

Reclaims == {"prune", "claim", "held", "heldStat", "discard", "restore", "release"}

Sole == \A s, t \in Sessions : HasName(s) /\ HasName(t) => s = t

\* The entry is the holder's: empty while it binds, then its own.
HoldersEntry ==
  /\ dir["entry"] # None => \E s \in Sessions : HasName(s)
  /\ \A s \in Sessions :
       HasName(s) => Holds("entry", IF phase[s] = "binding" THEN Invalid ELSE s)

\* The temporary file is another one, and is there during a write only.
WritersTmp ==
  /\ dir["entry"] = dir["tmp"] => dir["entry"] = None
  /\ dir["tmp"] # None => \E s \in Sessions : op[s] \in {"fill", "rename"}
  /\ \A s \in Sessions : /\ op[s] = "fill" => fd[s] = dir["tmp"] /\ HoldsInvalid("tmp")
                         /\ op[s] = "rename" => Holds("tmp", s)

\* What is invalid is young: it is being reserved or written.
Young ==
  /\ HoldsInvalid("entry") => dir["entry"] \notin old
  /\ \A s \in Sessions : op[s] = "stat" => dir["entry"] \notin old
  /\ dir["tmp"] \notin old

\* No entry is dead, and only a holder has one.
Alive ==
  \A i \in Files : content[i] # Gone /\ \A s \in Sessions : content[i] = s => HasName(s)

\* So nothing is pruned or reclaimed.
Calm ==
  /\ Sole /\ HoldersEntry /\ WritersTmp /\ Young /\ Alive
  /\ dir["claim"] = None
  /\ \A s \in Sessions : op[s] \notin Reclaims

LEMMA EntryNotGone ==
  ASSUME Inv, Calm
  PROVE  ~Holds("entry", Gone)
BY DEF Inv, DiskTypeOK, Names, Calm, Alive, Holds

LEMMA HolderOwns ==
  ASSUME Inv, Calm, NEW s \in Sessions, HasName(s)
  PROVE  Owns(s)
BY DEF Calm, HoldersEntry, Owns, Holds, HoldsEntry

LEMMA LooksOnly_Calm ==
  ASSUME Inv, Calm, NEW s \in Sessions, LooksOnly(s)
  PROVE  Calm' /\ \A t \in Sessions : HasName(t)' <=> HasName(t)
<1>1. UNCHANGED <<dir, content, old, fd>>
  BY DEF LooksOnly, Start, Look, ReadEntry, StatEntry, ReadHeld, StatHeld, BindFails, WriteRegistry,
     Close, Deregister, UntouchedDisk
<1>2. /\ \A t \in Sessions : t # s => op'[t] = op[t]
      /\ op[s] \notin {"fill", "rename"} /\ op'[s] \notin Reclaims \cup {"fill", "rename"}
      /\ op'[s] = "stat" => HoldsInvalid("entry")
  <2>1. op \in [Sessions -> Ops]
    BY DEF Inv, CourseOK
  <2>2. CASE Start(s) \/ BindFails(s) \/ Close(s)
    BY <2>1, <2>2 DEF Inv, CourseOK, Course, StartOps, WriteOps, Start, BindFails, Close, Then,
       Reclaims
  <2>3. CASE Look(s)
    BY <2>1, <2>3, EntryNotGone DEF Look, Then, Reclaims
  <2>4. CASE ReadEntry(s) \/ StatEntry(s)
    BY <2>1, <2>4 DEF ReadEntry, StatEntry, Then, Reclaims, Calm, Young
  <2>5. CASE ReadHeld(s) \/ StatHeld(s)
    BY <2>5 DEF ReadHeld, StatHeld, Calm, Reclaims
  <2>6. CASE WriteRegistry(s)
    BY <2>1, <2>6 DEF WriteRegistry, Then, Reclaims
  <2>7. CASE Deregister(s)
    BY <2>1, <2>7 DEF Deregister, Then, Reclaims
  <2> QED BY <2>2, <2>3, <2>4, <2>5, <2>6, <2>7 DEF LooksOnly
<1>3. /\ \A t \in Sessions : HasName(t)' <=> HasName(t)
      /\ \A t \in Sessions : HasName(t) => phase'[t] = phase[t]
  <2>1. phase \in [Sessions -> Phases]
    BY DEF Inv, CourseOK
  <2>2. CASE Start(s)
    BY <2>1, <2>2 DEF Start, HasName
  <2>3. CASE Deregister(s)
    <3>1. HasName(s)
      BY <2>3 DEF Deregister, Inv, CourseOK, Course, WriteOps, HasName
    <3> QED BY <2>1, <2>3, <3>1, HolderOwns DEF Deregister, HasName
  <2>4. CASE UNCHANGED phase
    BY <2>4 DEF HasName
  <2> QED
    BY <2>2, <2>3, <2>4
    DEF LooksOnly, Look, ReadEntry, StatEntry, ReadHeld, StatHeld, BindFails, WriteRegistry, Close
<1> USE DEF Calm
<1>4. Sole' /\ HoldersEntry'
  BY <1>1, <1>3 DEF Sole, HoldersEntry, Holds, HasName
<1>5. WritersTmp'
  BY <1>1, <1>2 DEF WritersTmp, Holds, HoldsInvalid, Inv, CourseOK
<1>6. Young'
  BY <1>1, <1>2 DEF Young, Holds, HoldsInvalid, Inv, CourseOK
<1>7. Alive' /\ dir'["claim"] = None
  BY <1>1, <1>3 DEF Alive
<1>8. \A t \in Sessions : op'[t] \notin Reclaims
  BY <1>2 DEF Inv, CourseOK
<1> QED BY <1>3, <1>4, <1>5, <1>6, <1>7, <1>8

\* In a calm state the name is reserved only when it is free.
LEMMA Create_Calm ==
  ASSUME Inv, Calm, NEW s \in Sessions, Create(s)
  PROVE  /\ Calm'
         /\ \A t \in Sessions : HasName(t)' <=> (HasName(t) \/ (t = s /\ dir["entry"] = None))
<1> DEFINE d == [dir EXCEPT !["entry"] = New]
<1>0. /\ phase \in [Sessions -> Phases] /\ op \in [Sessions -> Ops]
      /\ phase[s] = "starting" /\ op[s] = "create"
  BY DEF Inv, CourseOK, Course, StartOps, Create
<1>1. /\ \A t \in Sessions : t # s => op'[t] = op[t] /\ phase'[t] = phase[t]
      /\ op'[s] = "none"
  BY <1>0 DEF Create, Reserved, Then
<1>2. CASE dir["entry"] # None
  <2>1. UNCHANGED <<dir, content, old, fd>> /\ phase'[s] = "elsewhere"
    BY <1>0, <1>2 DEF Create, Reserved, UntouchedDisk
  <2>2. \A t \in Sessions : HasName(t)' <=> HasName(t)
    BY <1>0, <1>1, <2>1 DEF HasName
  <2>3. \A t \in Sessions : HasName(t) => phase'[t] = phase[t]
    BY <1>0, <1>1 DEF HasName
  <2>4. Sole' /\ HoldersEntry' /\ Alive'
    BY <2>1, <2>2, <2>3 DEF Calm, Sole, HoldersEntry, Alive, Holds
  <2>5. WritersTmp' /\ Young' /\ \A t \in Sessions : op'[t] \notin Reclaims
    BY <1>0, <1>1, <2>1 DEF Calm, WritersTmp, Young, Holds, HoldsInvalid, Reclaims
  <2> QED BY <1>2, <2>1, <2>2, <2>4, <2>5 DEF Calm
<1>3. CASE dir["entry"] = None
  <2>0. /\ Disk(d, fd, content, old) /\ phase'[s] = "binding"
        /\ \A t \in Sessions : ~HasName(t)
    BY <1>0, <1>3 DEF Create, Reserved, Calm, HoldersEntry, Holds
  <2>1. DiskTypeOK' /\ DiskBecomes(d, fd, content, old)
    BY <2>0, CreateEffect DEF Inv
  <2>2. \A t \in Sessions : HasName(t)' <=> t = s
    BY <1>0, <1>1, <2>0 DEF HasName
  <2>3. /\ New \notin Files \cup {None} /\ "entry" \in Names /\ "tmp" \in Names /\ "claim" \in Names
        /\ dir \in [Names -> Files \cup {None}] /\ old \subseteq Files
    BY RegistryConstants DEF Inv, DiskTypeOK, Files, Names
  \* Nobody writes: a writer has the name.
  <2>4. /\ dir["tmp"] = None /\ dir["claim"] = None
        /\ \A t \in Sessions : op[t] \notin WriteOps
    BY <2>0 DEF Inv, CourseOK, Course, WriteOps, HasName, Calm, WritersTmp
  <2>5. /\ dir'["entry"] # None /\ content'[dir'["entry"]] = Invalid /\ dir'["entry"] \notin old'
        /\ dir'["tmp"] = None /\ dir'["claim"] = None
    BY <2>1, <2>3, <2>4 DEF DiskBecomes, ContentOf
  <2>6. Sole' /\ HoldersEntry'
    BY <2>0, <2>2, <2>5 DEF Sole, HoldersEntry, Holds
  <2>7. WritersTmp'
    BY <1>1, <2>4, <2>5 DEF WritersTmp, WriteOps
  <2>8. Young'
    <3>1. None \notin old'
      BY <2>1, RegistryConstants DEF DiskTypeOK, Files
    <3> QED BY <2>5, <3>1 DEF Young
  <2>9. Alive'
    <3>1. \A t \in Sessions : fd[t] = None
      BY <2>4 DEF Inv, WritersOnly, WriteOps
    <3>2. \A t \in Sessions : fd'[t] = None
      BY <2>1, <3>1 DEF DiskBecomes
    <3>3. \A i \in Files : content'[i] = Invalid
      BY <2>1, <2>5, <3>2, RegistryConstants DEF DiskBecomes, Names, Files
    <3> QED BY <3>3, RegistryConstants DEF Alive
  <2>10. \A t \in Sessions : op'[t] \notin Reclaims
    BY <1>1 DEF Calm, Reclaims
  <2> QED BY <1>3, <2>0, <2>2, <2>5, <2>6, <2>7, <2>8, <2>9, <2>10 DEF Calm
<1> QED BY <1>2, <1>3

\* The holder writes alone: the temporary file is created, written and renamed.
LEMMA OpenTmp_Calm ==
  ASSUME Inv, Calm, NEW s \in Sessions, OpenTmp(s)
  PROVE  Calm' /\ \A t \in Sessions : HasName(t)' <=> HasName(t)
<1>0. /\ phase' = phase /\ op[s] = "open" /\ HasName(s)
      /\ op \in [Sessions -> Ops] /\ op'[s] = "fill"
      /\ \A t \in Sessions : t # s => op'[t] = op[t]
  BY DEF Inv, CourseOK, Course, WriteOps, OpenTmp, Then, HasName
<1>1. \A t \in Sessions : t # s => op[t] \notin WriteOps /\ fd[t] = None
  BY <1>0 DEF Inv, CourseOK, Course, WriteOps, HasName, Calm, Sole, WritersOnly
<1>2. dir["tmp"] = None /\ dir["claim"] = None
  BY <1>0, <1>1 DEF Calm, WritersTmp, WriteOps
<1>3. /\ DiskTypeOK'
      /\ DiskBecomes([dir EXCEPT !["tmp"] = New], [fd EXCEPT ![s] = New],
           [x \in Files |-> IF x = New THEN Invalid ELSE content[x]], old \ {New})
  BY <1>2, OpenEffect DEF Inv
<1>4. /\ New \notin Files \cup {None} /\ "entry" \in Names /\ "tmp" \in Names /\ "claim" \in Names
      /\ dir \in [Names -> Files \cup {None}] /\ old \subseteq Files
      /\ fd \in [Sessions -> Files \cup {None}] /\ content \in [Files -> Contents]
  BY RegistryConstants DEF Inv, DiskTypeOK, Files, Names
<1>5. /\ dir'["tmp"] # None /\ content'[dir'["tmp"]] = Invalid /\ dir'["tmp"] \notin old'
      /\ fd'[s] = dir'["tmp"] /\ dir'["claim"] = None /\ dir'["entry"] # dir'["tmp"]
      /\ \A t \in Sessions : t # s => fd'[t] = None
  BY <1>1, <1>2, <1>3, <1>4 DEF DiskBecomes, ContentOf
<1>6. /\ dir["entry"] # None /\ dir["entry"] \in Files
      /\ dir'["entry"] # None /\ content'[dir'["entry"]] = content[dir["entry"]]
      /\ dir'["entry"] \in old' <=> dir["entry"] \in old
  <2>1. dir["entry"] # None
    BY <1>0 DEF Calm, HoldersEntry, Holds
  <2> QED BY <1>3, <1>4, <2>1 DEF DiskBecomes, ContentOf
<1>7. \A t \in Sessions : HasName(t)' <=> HasName(t)
  BY <1>0 DEF HasName
<1>8. Sole' /\ HoldersEntry'
  BY <1>0, <1>6, <1>7 DEF Calm, Sole, HoldersEntry, Holds
<1>9. WritersTmp'
  BY <1>0, <1>1, <1>5 DEF WritersTmp, WriteOps, Holds, HoldsInvalid
<1>10. Young'
  BY <1>0, <1>5, <1>6 DEF Calm, Young, Holds, HoldsInvalid
<1>11. Alive'
  <2>1. content[dir["entry"]] # Gone /\ \A t \in Sessions : content[dir["entry"]] = t => HasName(t)
    BY <1>6 DEF Calm, Alive
  <2>2. \A i \in Files : content'[i] \in {Invalid, content[dir["entry"]]}
    BY <1>3, <1>5, <1>6, RegistryConstants DEF DiskBecomes, Names, Files
  <2> QED BY <1>7, <2>1, <2>2, RegistryConstants DEF Alive
<1>12. \A t \in Sessions : op'[t] \notin Reclaims
  BY <1>0 DEF Calm, Reclaims
<1> QED BY <1>5, <1>7, <1>8, <1>9, <1>10, <1>11, <1>12 DEF Calm

LEMMA FillTmp_Calm ==
  ASSUME Inv, Calm, NEW s \in Sessions, FillTmp(s)
  PROVE  Calm' /\ \A t \in Sessions : HasName(t)' <=> HasName(t)
<1>0. /\ phase' = phase /\ op[s] = "fill" /\ HasName(s)
      /\ op \in [Sessions -> Ops] /\ op'[s] = "rename"
      /\ \A t \in Sessions : t # s => op'[t] = op[t]
  BY DEF Inv, CourseOK, Course, WriteOps, FillTmp, Then, HasName
<1>1. \A t \in Sessions : t # s => op[t] \notin WriteOps /\ fd[t] = None
  BY <1>0 DEF Inv, CourseOK, Course, WriteOps, HasName, Calm, Sole, WritersOnly
<1>2. /\ "entry" \in Names /\ "tmp" \in Names /\ "claim" \in Names /\ None \notin Files
      /\ dir \in [Names -> Files \cup {None}] /\ old \subseteq Files
      /\ fd \in [Sessions -> Files \cup {None}] /\ content \in [Files -> Contents]
  BY RegistryConstants DEF Inv, DiskTypeOK, Files, Names
<1>3. /\ fd[s] = dir["tmp"] /\ dir["tmp"] \in Files /\ content[dir["tmp"]] = Invalid
      /\ dir["claim"] = None /\ dir["entry"] # None /\ dir["entry"] # dir["tmp"]
  BY <1>0, <1>2 DEF Calm, WritersTmp, HoldersEntry, Holds, HoldsInvalid
<1> DEFINE c == [content EXCEPT ![dir["tmp"]] = s]
<1>4. /\ DiskTypeOK'
      /\ DiskBecomes(dir, [fd EXCEPT ![s] = None], c, old \ {dir["tmp"]})
  BY <1>3, FillEffect DEF Inv
<1>5. /\ dir'["tmp"] # None /\ content'[dir'["tmp"]] = s /\ dir'["tmp"] \notin old'
      /\ dir'["claim"] = None /\ dir'["entry"] # dir'["tmp"]
  BY <1>2, <1>3, <1>4 DEF DiskBecomes, ContentOf
<1>6. /\ dir'["entry"] # None /\ content'[dir'["entry"]] = content[dir["entry"]]
      /\ dir'["entry"] \in old' <=> dir["entry"] \in old
  BY <1>2, <1>3, <1>4 DEF DiskBecomes, ContentOf
<1>7. \A t \in Sessions : fd'[t] = None
  BY <1>1, <1>2, <1>4 DEF DiskBecomes
<1>8. \A t \in Sessions : HasName(t)' <=> HasName(t)
  BY <1>0 DEF HasName
<1>9. Sole' /\ HoldersEntry'
  BY <1>0, <1>6, <1>3, <1>8 DEF Calm, Sole, HoldersEntry, Holds
<1>10. WritersTmp'
  BY <1>0, <1>1, <1>5 DEF WritersTmp, WriteOps, Holds
<1>11. Young'
  BY <1>0, <1>3, <1>5, <1>6 DEF Calm, Young, Holds, HoldsInvalid
<1>12. Alive'
  <2>1. content[dir["entry"]] # Gone /\ \A t \in Sessions : content[dir["entry"]] = t => HasName(t)
    BY <1>2, <1>3 DEF Calm, Alive
  <2>2. \A i \in Files : content'[i] \in {Invalid, s, content[dir["entry"]]}
    BY <1>2, <1>4, <1>5, <1>6, <1>7 DEF DiskBecomes, Names
  <2> QED BY <1>0, <1>8, <2>1, <2>2, RegistryConstants DEF Alive
<1>13. \A t \in Sessions : op'[t] \notin Reclaims
  BY <1>0 DEF Calm, Reclaims
<1> QED BY <1>5, <1>8, <1>9, <1>10, <1>11, <1>12, <1>13 DEF Calm

LEMMA Publish_Calm ==
  ASSUME Inv, Calm, NEW s \in Sessions, Publish(s)
  PROVE  Calm' /\ \A t \in Sessions : HasName(t)' <=> HasName(t)
<1>1. /\ op[s] = "rename" /\ HasName(s)
      /\ op \in [Sessions -> Ops] /\ phase \in [Sessions -> Phases]
  BY DEF Inv, CourseOK, Course, WriteOps, Publish, HasName
<1>2. /\ "entry" \in Names /\ "tmp" \in Names /\ "claim" \in Names /\ None \notin Files
      /\ dir \in [Names -> Files \cup {None}] /\ old \subseteq Files
      /\ fd \in [Sessions -> Files \cup {None}] /\ content \in [Files -> Contents]
  BY RegistryConstants DEF Inv, DiskTypeOK, Files, Names
<1>3. /\ dir["tmp"] \in Files /\ content[dir["tmp"]] = s /\ dir["claim"] = None
      /\ dir["tmp"] \notin old /\ dir["tmp"] # dir["entry"]
      /\ \A t \in Sessions : t # s => ~HasName(t)
  BY <1>1, <1>2 DEF Calm, WritersTmp, Young, Sole, Holds
<1>4. /\ Rename("tmp", "entry") /\ phase'[s] = "serving" /\ op'[s] = "none"
      /\ \A t \in Sessions : t # s => phase'[t] = phase[t] /\ op'[t] = op[t]
  BY <1>1, <1>2, <1>3 DEF Publish, Then
<1>5. /\ DiskTypeOK'
      /\ DiskBecomes([dir EXCEPT !["entry"] = dir["tmp"], !["tmp"] = None], fd, content, old)
  BY <1>2, <1>3, <1>4, RenameEffect DEF Inv
<1>6. /\ dir'["entry"] # None /\ content'[dir'["entry"]] = s /\ dir'["entry"] \notin old'
      /\ dir'["tmp"] = None /\ dir'["claim"] = None
  BY <1>2, <1>3, <1>5 DEF DiskBecomes, ContentOf
<1>7. \A t \in Sessions : fd'[t] = None /\ op[t] # "fill"
  <2>1. \A t \in Sessions : op[t] # "fill"
    BY <1>1, <1>3 DEF Inv, CourseOK, Course, WriteOps, HasName
  <2> QED BY <1>5, <2>1 DEF Inv, WritersOnly, DiskBecomes
<1>8. \A t \in Sessions : HasName(t)' <=> HasName(t)
  BY <1>1, <1>4 DEF HasName
<1>9. Sole' /\ HoldersEntry'
  BY <1>1, <1>3, <1>4, <1>6, <1>8 DEF Sole, HoldersEntry, Holds
<1>10. WritersTmp'
  <2>1. \A t \in Sessions : op'[t] \notin {"fill", "rename"}
    BY <1>3, <1>4, <1>7 DEF Inv, CourseOK, Course, WriteOps, HasName
  <2> QED BY <1>6, <2>1 DEF WritersTmp
<1>11. Young'
  <2>1. None \notin old'
    BY <1>2, <1>5 DEF DiskTypeOK
  <2> QED BY <1>6, <2>1 DEF Young
<1>12. Alive'
  <2>1. \A i \in Files : content'[i] \in {Invalid, s}
    BY <1>2, <1>5, <1>6, <1>7 DEF DiskBecomes, Names
  <2> QED BY <1>1, <1>8, <2>1, RegistryConstants DEF Alive
<1>13. \A t \in Sessions : op'[t] \notin Reclaims
  BY <1>4 DEF Calm, Reclaims
<1> QED BY <1>6, <1>8, <1>9, <1>10, <1>11, <1>12, <1>13 DEF Calm

\* The holder gives the name up: nothing of it is left.
LEMMA Remove_Calm ==
  ASSUME Inv, Calm, NEW s \in Sessions, Remove(s)
  PROVE  /\ Calm' /\ HasName(s)
         /\ \A t \in Sessions : ~HasName(t)'
<1>1. /\ op[s] = "remove" /\ HasName(s)
      /\ op \in [Sessions -> Ops] /\ phase \in [Sessions -> Phases]
      /\ phase'[s] = "closed" /\ op'[s] = "none"
      /\ \A t \in Sessions : t # s => phase'[t] = phase[t] /\ op'[t] = op[t]
  BY DEF Inv, CourseOK, Course, WriteOps, Remove, Then, HasName
<1>2. /\ "entry" \in Names /\ "tmp" \in Names /\ "claim" \in Names /\ None \notin Files
      /\ dir \in [Names -> Files \cup {None}]
  BY RegistryConstants DEF Inv, DiskTypeOK, Files, Names
<1>3. \A t \in Sessions : ~HasName(t)'
  BY <1>1 DEF Calm, Sole, HasName
<1>4. \A t \in Sessions : op[t] \notin {"fill", "rename"}
  BY <1>1 DEF Inv, CourseOK, Course, WriteOps, HasName, Calm, Sole
<1>5. dir["tmp"] = None /\ dir["claim"] = None
  BY <1>4 DEF Calm, WritersTmp
<1>6. DiskTypeOK' /\ DiskBecomes([dir EXCEPT !["entry"] = None], fd, content, old)
  BY <1>2, UnlinkEffect DEF Inv, Remove
<1>7. dir'["entry"] = None /\ dir'["tmp"] = None /\ dir'["claim"] = None
  BY <1>2, <1>5, <1>6 DEF DiskBecomes
<1>8. \A t \in Sessions : fd'[t] = None
  BY <1>4, <1>6 DEF Inv, WritersOnly, DiskBecomes
<1>9. \A i \in Files : content'[i] = Invalid
  BY <1>2, <1>6, <1>7, <1>8 DEF DiskBecomes, Names
<1>10. Sole' /\ HoldersEntry' /\ Alive'
  BY <1>3, <1>7, <1>9, RegistryConstants DEF Sole, HoldersEntry, Alive
<1>11. WritersTmp' /\ Young'
  <2>1. None \notin old'
    BY <1>2, <1>6 DEF DiskTypeOK
  <2> QED BY <1>1, <1>4, <1>7, <2>1 DEF WritersTmp, Young
<1>12. \A t \in Sessions : op'[t] \notin Reclaims
  BY <1>1 DEF Calm, Reclaims
<1> QED BY <1>1, <1>3, <1>7, <1>10, <1>11, <1>12 DEF Calm

\* A process that ends at rest leaves everything as it is.
LEMMA End_Calm ==
  ASSUME Inv, Calm, NEW s \in Sessions, End(s), AtRest(s)
  PROVE  Calm' /\ \A t \in Sessions : HasName(t)' <=> HasName(t)
<1>1. /\ op[s] = "none" /\ ~HasName(s) /\ fd[s] = None
      /\ op \in [Sessions -> Ops] /\ phase \in [Sessions -> Phases]
  BY DEF AtRest, HasName, Inv, CourseOK, WritersOnly
<1>2. /\ op' = op
      /\ phase'[s] = "off" /\ \A t \in Sessions : t # s => phase'[t] = phase[t]
  BY <1>1 DEF End, Then
<1>3. \A t \in Sessions : HasName(t)' <=> HasName(t)
  BY <1>1, <1>2 DEF HasName
<1>4. /\ "entry" \in Names /\ "tmp" \in Names /\ "claim" \in Names /\ None \notin Files
      /\ dir \in [Names -> Files \cup {None}] /\ content \in [Files -> Contents]
      /\ fd \in [Sessions -> Files \cup {None}] /\ old \subseteq Files
  BY RegistryConstants DEF Inv, DiskTypeOK, Files, Names
<1>5. [i \in Files |-> IF content[i] = s THEN Gone ELSE content[i]] = content
  <2>1. \A i \in Files : content[i] # s
    BY <1>1 DEF Calm, Alive
  <2> QED BY <1>4, <2>1
<1>6. DiskTypeOK' /\ DiskBecomes(dir, fd, content, old)
  <2>1. [fd EXCEPT ![s] = None] = fd
    BY <1>1, <1>4
  <2> QED BY <1>5, <2>1, EndEffect DEF Inv
<1>7. /\ \A n \in Names : /\ dir'[n] = None <=> dir[n] = None
                          /\ dir[n] # None => content'[dir'[n]] = content[dir[n]]
                          /\ dir'[n] \in old' <=> dir[n] \in old
      /\ \A n \in Names, t \in Sessions : dir'[n] = fd'[t] <=> dir[n] = fd[t]
      /\ \A n, m \in Names : dir'[n] = dir'[m] <=> dir[n] = dir[m]
  BY <1>4, <1>6 DEF DiskBecomes, ContentOf
<1>8. Sole' /\ HoldersEntry'
  BY <1>1, <1>2, <1>3, <1>4, <1>7 DEF Calm, Sole, HoldersEntry, Holds, HasName
<1>9. WritersTmp'
  BY <1>2, <1>4, <1>7 DEF Calm, WritersTmp, Holds, HoldsInvalid
<1>10. Young' /\ dir'["claim"] = None
  BY <1>2, <1>4, <1>7 DEF Calm, Young, Holds, HoldsInvalid
<1>11. Alive'
  <2>1. \A t \in Sessions : fd[t] # None => fd[t] = dir["tmp"]
    BY DEF Inv, WritersOnly, Calm, WritersTmp
  <2>2. \A t \in Sessions : fd'[t] # None => fd'[t] = dir'["tmp"]
    BY <1>4, <1>6, <1>7, <2>1 DEF DiskBecomes
  <2>3. \A i \in Files : content'[i] = Invalid \/ \E n \in Names : dir'[n] = i
    BY <1>4, <1>6, <2>2 DEF DiskBecomes
  <2>4. \A i \in Files : content'[i] = Invalid \/ \E j \in Files : content'[i] = content[j]
    BY <1>4, <1>7, <2>3
  <2> QED BY <1>3, <2>4, RegistryConstants DEF Calm, Alive
<1>12. \A t \in Sessions : op'[t] \notin Reclaims
  BY <1>2 DEF Calm
<1> QED BY <1>3, <1>8, <1>9, <1>10, <1>11, <1>12 DEF Calm

\* What is old was not being written or reserved.
LEMMA Age_Calm ==
  ASSUME Inv, Calm, ~Stalls, NEW i \in Files, Age(i)
  PROVE  Calm' /\ \A t \in Sessions : HasName(t)' <=> HasName(t)
<1>1. /\ UNCHANGED <<dir, content, phase, op, fd, lost>> /\ old' = old \cup {i}
      /\ \A t \in Sessions : phase[t] # "binding" /\ op[t] = "none"
  BY DEF Age
<1>2. dir["tmp"] = None
  BY <1>1 DEF Calm, WritersTmp
<1>3. ~HoldsInvalid("entry")
  BY <1>1, RegistryConstants DEF Calm, HoldersEntry, Holds, HoldsInvalid
<1>4. None \notin old'
  BY <1>1, RegistryConstants DEF Inv, DiskTypeOK, Files
<1>5. Sole' /\ HoldersEntry' /\ WritersTmp' /\ Alive'
  BY <1>1 DEF Calm, Sole, HoldersEntry, WritersTmp, Alive, Holds, HoldsInvalid, HasName
<1>6. Young'
  BY <1>1, <1>2, <1>3, <1>4 DEF Young, Holds, HoldsInvalid
<1> QED BY <1>1, <1>5, <1>6 DEF Calm, HasName

\* Nothing is pruned or reclaimed.
LEMMA NoReclaim ==
  ASSUME Calm, NEW s \in Sessions
  PROVE  ~Prune(s) /\ ~Claim(s) /\ ~Restore(s) /\ ~DropClaim(s)
BY DEF Calm, Reclaims, Prune, Claim, Restore, DropClaim

\* What a step does to the name while no process crashes.
NameStays == \A t \in Sessions : HasName(t)' <=> HasName(t)
NameTaken(s) ==
  (\A t \in Sessions : ~HasName(t)) /\ \A t \in Sessions : HasName(t)' <=> t = s
NameGivenUp(s) == HasName(s) /\ \A t \in Sessions : ~HasName(t)'

NoCrash == \A s \in Sessions : phase'[s] = "off" => AtRest(s)

LEMMA Calm_Step ==
  ASSUME Inv, Calm, ~Stalls, [Next]_vars, NoCrash
  PROVE  Calm' /\ (NameStays \/ \E s \in Sessions : NameTaken(s) \/ NameGivenUp(s))
<1>1. CASE UNCHANGED vars
  BY <1>1 DEF vars, Calm, Sole, HoldersEntry, WritersTmp, Young, Alive, HasName, Holds,
     HoldsInvalid, NameStays
<1>2. CASE \E i \in Files : Age(i)
  BY <1>2, Age_Calm DEF NameStays
<1>3. ASSUME NEW s \in Sessions, LooksOnly(s) \/ OpenTmp(s) \/ FillTmp(s) \/ Publish(s)
      PROVE  Calm' /\ NameStays
  BY <1>3, LooksOnly_Calm, OpenTmp_Calm, FillTmp_Calm, Publish_Calm DEF NameStays
<1>4. ASSUME NEW s \in Sessions, Create(s) PROVE Calm' /\ (NameStays \/ NameTaken(s))
  <2>1. CASE dir["entry"] # None
    BY <1>4, <2>1, Create_Calm DEF NameStays
  <2>2. CASE dir["entry"] = None
    <3>1. \A t \in Sessions : ~HasName(t)
      BY <2>2 DEF Calm, HoldersEntry, Holds
    <3> QED BY <1>4, <2>2, <3>1, Create_Calm DEF NameTaken
  <2> QED BY <2>1, <2>2
<1>5. ASSUME NEW s \in Sessions, Remove(s) PROVE Calm' /\ NameGivenUp(s)
  BY <1>5, Remove_Calm DEF NameGivenUp
<1>6. ASSUME NEW s \in Sessions, End(s) PROVE Calm' /\ NameStays
  <2>1. AtRest(s)
    BY <1>6 DEF NoCrash, End, Inv, CourseOK
  <2> QED BY <1>6, <2>1, End_Calm DEF NameStays
<1>7. CASE Next
  BY <1>2, <1>3, <1>4, <1>5, <1>6, <1>7, NoReclaim, Steps DEF MovesNames
<1> QED BY <1>1, <1>7

-----------------------------------------------------------------------------
(* One holder *)

Safe == Inv /\ crashed \in BOOLEAN /\ (~crashed => Calm)

LEMMA Uncrashed ==
  ASSUME Inv, [HNext]_<<vars, crashed>>, ~crashed'
  PROVE  ~crashed /\ [Next]_vars /\ NoCrash
<1>1. CASE UNCHANGED <<vars, crashed>>
  BY <1>1 DEF vars, NoCrash, AtRest, Inv, CourseOK, Course, Ops, StartOps, WriteOps
<1>2. CASE HNext
  BY <1>2 DEF HNext, NoCrash
<1> QED BY <1>1, <1>2

LEMMA Safe_Init == HInit => Safe
<1> SUFFICES ASSUME HInit PROVE Safe
  OBVIOUS
<1>1. Inv
  BY Inv_Init DEF HInit
<1>2. None \notin Files
  BY RegistryConstants DEF Files
<1>3. Calm
  BY <1>2, RegistryConstants DEF HInit, Init, Names, Calm, Sole, HoldersEntry, WritersTmp, Young, Alive,
     HasName, Holds, HoldsInvalid, Reclaims
<1> QED BY <1>1, <1>3 DEF Safe, HInit

LEMMA Safe_Step ==
  ASSUME ~Stalls, Safe, [HNext]_<<vars, crashed>>
  PROVE  Safe'
<1>1. [Next]_vars
  BY DEF HNext, vars
<1>2. crashed' \in BOOLEAN
  BY DEF HNext, Safe
<1> QED BY <1>1, <1>2, Inv_Step, Uncrashed, Calm_Step DEF Safe

\* As long as no process has crashed, and no bind or operation outlasts the grace
\* window, a name is served by one session, for any number of sessions and
\* however their file-system calls interleave (reserveName, writeRegistry).
THEOREM NameIsKept == ~Stalls => (HSpec => []HolderWhileCalm)
<1> SUFFICES ASSUME ~Stalls PROVE HSpec => []HolderWhileCalm
  OBVIOUS
<1>1. Safe => HolderWhileCalm
  BY DEF Safe, Calm, Sole, HasName, HolderWhileCalm, NameHasOneHolder, HoldsName
<1>2. Safe /\ [HNext]_<<vars, crashed>> => Safe'
  BY Safe_Step
<1> QED BY <1>1, <1>2, Safe_Init, PTL DEF HSpec

LEMMA LockSteps ==
  ASSUME ~Stalls, Safe, [HNext]_<<vars, crashed>>
  PROVE  [Lock!Next]_(Lock!vars)
<1>1. CASE crashed
  <2>1. crashed'
    BY <1>1 DEF HNext
  <2> QED BY <1>1, <2>1 DEF Lock!vars, Holders
<1>2. CASE ~crashed /\ crashed'
  BY <1>2 DEF Lock!Next, Lock!Break, Holders
<1>3. CASE ~crashed /\ ~crashed'
  <2>0. crashed' = crashed
    BY <1>3, Safe_Step DEF Safe
  <2>1. NameStays \/ \E s \in Sessions : NameTaken(s) \/ NameGivenUp(s)
    BY <1>3, Uncrashed, Calm_Step DEF Safe
  <2>2. Sole
    BY <1>3 DEF Safe, Calm
  <2>3. Holders = {s \in Sessions : HasName(s)} /\ Holders' = {s \in Sessions : HasName(s)'}
    BY <1>3 DEF Holders
  <2>4. CASE NameStays
    BY <2>0, <2>3, <2>4 DEF NameStays, Lock!vars
  <2>5. ASSUME NEW s \in Sessions, NameTaken(s) PROVE Lock!Acquire(s)
    BY <1>3, <2>0, <2>3, <2>5 DEF NameTaken, Lock!Acquire
  <2>6. ASSUME NEW s \in Sessions, NameGivenUp(s) PROVE Lock!Release(s)
    <3>1. Holders = {s}
      BY <2>2, <2>3, <2>6 DEF NameGivenUp, Sole
    <3> QED BY <1>3, <2>0, <2>3, <2>6, <3>1 DEF NameGivenUp, Lock!Release
  <2> QED BY <2>1, <2>4, <2>5, <2>6 DEF Lock!Next
<1> QED BY <1>1, <1>2, <1>3

\* As long as no process has crashed, and no bind or operation outlasts the grace
\* window, the name is a lock: it passes to another session only when the one
\* that has it has given it up, also while it binds, writes or closes
\* (reserveName, writeRegistry, deregister).
THEOREM LockImplemented == ~Stalls => (HSpec => ImplementsNameLock)
<1> SUFFICES ASSUME ~Stalls PROVE HSpec => ImplementsNameLock
  OBVIOUS
<1>1. HInit => Lock!Init
  BY DEF HInit, Init, Lock!Init, Holders, HasName
<1>2. Safe /\ [HNext]_<<vars, crashed>> => Safe' /\ [Lock!Next]_(Lock!vars)
  BY Safe_Step, LockSteps
<1> QED BY <1>1, <1>2, Safe_Init, PTL DEF HSpec, ImplementsNameLock, Lock!Spec
=============================================================================
