------------------------------ MODULE S3cFbProofs ------------------------------
(***************************************************************************)
(* Proofs about Bringup and S3cFb, for any drivers whose scripts are       *)
(* balanced (and, for what is published, ordered) and for any palette.     *)
(* Where a driver is in its script bounds what it holds: exactly what the  *)
(* init function has taken, and at most what the rest of the undo or exit  *)
(* script will release.                                                    *)
(***************************************************************************)
EXTENDS S3cFb, TLAPS

\* Before its first statement a script has taken nothing.
LEMMA TakesFirst ==
    ASSUME NEW s, DOMAIN s \subseteq Nat \ {0}
    PROVE  Takes(s, 1) = {}
  BY DEF Takes

\* What one statement adds to what was taken.
LEMMA TakesNext ==
    ASSUME NEW s, DOMAIN s \subseteq Nat \ {0}, NEW n \in DOMAIN s
    PROVE  /\ s[n].op \in {"get", "add"} => Takes(s, n + 1) = Takes(s, n) \union s[n].what
           /\ s[n].op = "touch" => Takes(s, n + 1) = Takes(s, n)
<1>1. \A i \in DOMAIN s : i < n + 1 <=> (i < n \/ i = n)
  OBVIOUS
<1>. QED  BY <1>1 DEF Takes

\* What one statement takes off what is still to be released.
LEMMA GivesNext ==
    ASSUME NEW s, DOMAIN s \subseteq Nat \ {0}, NEW n \in DOMAIN s
    PROVE  /\ Gives(s, n) \subseteq s[n].what \union Gives(s, n + 1)
           /\ s[n].op = "touch" => Gives(s, n) = Gives(s, n + 1)
<1>1. \A i \in DOMAIN s : i >= n <=> (i >= n + 1 \/ i = n)
  OBVIOUS
<1>. QED  BY <1>1 DEF Gives

\* Past its end a script releases nothing.
LEMMA GivesEnd ==
    ASSUME NEW s, Len(s) \in Nat, DOMAIN s = 1 .. Len(s), NEW n \in Nat, n > Len(s)
    PROVE  Gives(s, n) = {}
  BY DEF Gives

\* What the rest of a script uses, one statement on.
LEMMA UsesNext ==
    ASSUME NEW s, DOMAIN s \subseteq Nat \ {0}, NEW n \in DOMAIN s
    PROVE  /\ Uses(s, n + 1) \subseteq Uses(s, n)
           /\ s[n].op \in {"put", "touch"} => s[n].what \subseteq Uses(s, n)
<1>1. \A i \in DOMAIN s : i >= n <=> (i >= n + 1 \/ i = n)
  OBVIOUS
<1>. QED  BY <1>1 DEF Uses

\* What a statement uses, the script uses.
LEMMA UsedByAll ==
    ASSUME NEW s, DOMAIN s \subseteq Nat \ {0}, NEW n \in DOMAIN s,
           s[n].op \in {"put", "touch"}
    PROVE  s[n].what \subseteq Uses(s, 1)
<1>1. n >= 1 OBVIOUS
<1>. QED  BY <1>1 DEF Uses

\* What is held, bounded by the place in the script.
Progress ==
    /\ mode \in {"in", "out"} => at = 1
    /\ mode \in Functions => at # 0
    /\ mode = "init" => held \union lost = Takes(Driver[drv].init, at)
    /\ mode = "in" => held \union lost = Resources(drv)
    /\ mode = "undo" => held \subseteq Gives(Driver[drv].undo, at)
    /\ mode = "exit" => held \subseteq Driver[drv].forgets \union Gives(Driver[drv].exit, at)
    /\ mode = "out" => held \subseteq Driver[drv].forgets

BInv == Balanced /\ BringupTypeOK /\ Progress

\* What the assumption says of the script a driver is in.
LEMMA ScriptShape ==
    ASSUME BInv, mode \in Functions
    PROVE  /\ Len(Script) \in Nat
           /\ DOMAIN Script = 1 .. Len(Script)
           /\ DOMAIN Script \subseteq Nat \ {0}
           /\ \A k \in DOMAIN Script :
                 /\ mode = "init" => Script[k].op \in {"get", "add", "touch"}
                 /\ mode # "init" => Script[k].op \in {"put", "free", "touch"}
<1>1. /\ Len(Script) \in Nat
      /\ DOMAIN Script = 1 .. Len(Script)
      /\ \A k \in DOMAIN Script :
            Script[k].op \in
               {"touch"} \union (IF mode = "init" THEN {"get", "add"} ELSE {"put", "free"})
  BY DEF BInv, Balanced, BringupTypeOK, Script
<1>. QED  BY <1>1

\* A statement uses the resources of its driver only.
LEMMA UsesResources ==
    ASSUME BInv, mode \in Functions, at \in DOMAIN Script, Script[at].op \in {"put", "touch"}
    PROVE  Script[at].what \subseteq Resources(drv)
<1>1. Script[at].what \subseteq Uses(Script, 1) BY ScriptShape, UsedByAll
<1>2. Uses(Driver[drv][mode], 1) \subseteq Resources(drv)
  BY DEF BInv, Balanced, BringupTypeOK
<1>. QED  BY <1>1, <1>2 DEF Script

\* A statement that takes: the init function only.
LEMMA AcquireInv == BInv /\ Acquire => BInv'
<1>. SUFFICES ASSUME BInv, Acquire PROVE BInv'
  OBVIOUS
<1>1. at \in DOMAIN Script /\ mode \in Functions BY DEF Acquire, At
<1>2. mode = "init" /\ Script[at].op \in {"get", "add"}
  BY <1>1, ScriptShape DEF Acquire, At
<1>3. Script = Driver[drv].init BY <1>2 DEF Script
<1>4. Takes(Script, at + 1) = Takes(Script, at) \union Script[at].what
  BY <1>1, <1>2, ScriptShape, TakesNext
<1>5. Script[at].what \subseteq Resources(drv)
  BY <1>1, <1>2, <1>3, ScriptShape DEF Resources, Takes
<1>6. BringupTypeOK' BY <1>5 DEF Acquire, BInv, BringupTypeOK
<1>7. Progress' BY <1>2, <1>3, <1>4 DEF Acquire, BInv, BringupTypeOK, Progress, Functions
<1>. QED  BY <1>6, <1>7 DEF BInv

\* A refusal nobody looks at: the resource counts as lost.
LEMMA RefuseUnseenInv == BInv /\ RefuseUnseen => BInv'
<1>. SUFFICES ASSUME BInv, RefuseUnseen PROVE BInv'
  OBVIOUS
<1>1. at \in DOMAIN Script /\ mode \in Functions BY DEF RefuseUnseen, At
<1>2. mode = "init" /\ Script[at].op = "get"
  BY <1>1, ScriptShape DEF RefuseUnseen, At
<1>3. Script = Driver[drv].init BY <1>2 DEF Script
<1>4. Takes(Script, at + 1) = Takes(Script, at) \union Script[at].what
  BY <1>1, <1>2, ScriptShape, TakesNext
<1>5. Script[at].what \subseteq Resources(drv)
  BY <1>1, <1>2, <1>3, ScriptShape DEF Resources, Takes
<1>6. BringupTypeOK' BY <1>5 DEF RefuseUnseen, BInv, BringupTypeOK
<1>7. Progress' BY <1>2, <1>3, <1>4 DEF RefuseUnseen, BInv, BringupTypeOK, Progress, Functions
<1>. QED  BY <1>6, <1>7 DEF BInv

\* The jump: the label releases all that was taken.
LEMMA RefuseInv == BInv /\ Refuse => BInv'
<1>. SUFFICES ASSUME BInv, Refuse PROVE BInv'
  OBVIOUS
<1>1. at \in DOMAIN Script /\ mode \in Functions BY DEF Refuse, RefuseTo, At
<1>2. mode = "init" BY <1>1, ScriptShape DEF Refuse, RefuseTo, At
<1>3. Script = Driver[drv].init BY <1>2 DEF Script
<1>4. /\ Script[at].to \in Nat
      /\ Takes(Script, at) \subseteq Script[at].puts \union Gives(Driver[drv].undo, Script[at].to)
  BY <1>1, <1>3 DEF BInv, BringupTypeOK, Balanced, Refuse, RefuseTo
<1>5. held' \subseteq Gives(Driver[drv].undo, Script[at].to)
  BY <1>2, <1>3, <1>4 DEF Refuse, RefuseTo, BInv, Progress
<1>6. BringupTypeOK' BY <1>4 DEF Refuse, RefuseTo, BInv, BringupTypeOK, Functions
<1>7. Progress' BY <1>4, <1>5 DEF Refuse, RefuseTo, Progress, Functions, Ignored
<1>. QED  BY <1>6, <1>7 DEF BInv

\* Following a pointer changes nothing that is held.
LEMMA DereferenceInv == BInv /\ Dereference => BInv'
<1>. SUFFICES ASSUME BInv, Dereference PROVE BInv'
  OBVIOUS
<1>1. at \in DOMAIN Script /\ mode \in Functions /\ Script[at].op = "touch"
  BY DEF Dereference, At
<1>2. Takes(Script, at + 1) = Takes(Script, at) /\ Gives(Script, at + 1) = Gives(Script, at)
  BY <1>1, ScriptShape, TakesNext, GivesNext
<1>3. BringupTypeOK'
  <2>1. missing' \subseteq Resources(drv) BY <1>1, UsesResources DEF Dereference, Follow
  <2>. QED  BY <2>1 DEF Dereference, BInv, BringupTypeOK
<1>4. Progress'
  BY <1>1, <1>2 DEF Dereference, BInv, BringupTypeOK, Progress, Functions, Script
<1>. QED  BY <1>3, <1>4 DEF BInv

\* A release takes what is held and what is to be released off together.
LEMMA ReleaseInv == BInv /\ Release => BInv'
<1>. SUFFICES ASSUME BInv, Release PROVE BInv'
  OBVIOUS
<1>1. at \in DOMAIN Script /\ mode \in Functions /\ Script[at].op \in {"put", "free"}
  BY DEF Release, At
<1>2. mode # "init" BY <1>1, ScriptShape
<1>3. Gives(Script, at) \subseteq Script[at].what \union Gives(Script, at + 1)
  BY <1>1, ScriptShape, GivesNext
<1>4. BringupTypeOK'
  <2>1. missing' \subseteq Resources(drv)
    <3>1. CASE At("put")
      <4>1. Script[at].what \subseteq Resources(drv) BY <1>1, <3>1, UsesResources DEF At
      <4>. QED  BY <3>1, <4>1 DEF Release, Follow, At
    <3>2. CASE At("free") BY <3>2 DEF Release, At, BInv, BringupTypeOK
    <3>. QED  BY <3>1, <3>2 DEF Release
  <2>2. /\ held' \subseteq held /\ at' = at + 1
        /\ UNCHANGED <<drv, mode, lost, files>>
    BY DEF Release
  <2>. QED  BY <2>1, <2>2 DEF BInv, BringupTypeOK
<1>5. Progress'
  BY <1>1, <1>2, <1>3 DEF Release, BInv, BringupTypeOK, Progress, Functions, Script
<1>. QED  BY <1>4, <1>5 DEF BInv

\* A function returns with nothing left to release, or with all taken.
LEMMA ReturnInv == BInv /\ Return => BInv'
<1>. SUFFICES ASSUME BInv, Return PROVE BInv'
  OBVIOUS
<1>1. mode \in Functions /\ at = Len(Script) + 1 BY DEF Return
<1>2. Gives(Script, at) = {} BY <1>1, ScriptShape, GivesEnd
<1>3. /\ mode = "init" => mode' = "in"
      /\ mode # "init" => mode' = "out"
  BY <1>1 DEF Return, Functions
<1>4. BringupTypeOK' BY <1>3 DEF Return, BInv, BringupTypeOK
<1>5. Progress'
  <2>1. CASE mode = "init"
    BY <1>1, <1>3, <2>1 DEF Return, BInv, Progress, Resources, Script, Functions
  <2>2. CASE mode # "init"
    BY <1>1, <1>2, <1>3, <2>2 DEF Return, BInv, Progress, Script, Functions
  <2>. QED  BY <2>1, <2>2
<1>. QED  BY <1>4, <1>5 DEF BInv

\* Loading starts with nothing, unloading with what was taken.
LEMMA AroundInv ==
    ASSUME BInv,
           \/ \E d \in Drivers : Load(d)
           \/ Unload \/ Remove \/ Close \/ Reboot
           \/ \E e \in Driver[drv].serves : Call(e) \/ Open(e)
           \/ UNCHANGED bringup
    PROVE  BInv'
<1>1. ASSUME NEW d \in Drivers, Load(d) PROVE BInv'
  <2>1. DOMAIN Driver[d].init \subseteq Nat \ {0}
    BY DEF BInv, Balanced, Functions
  <2>2. Takes(Driver[d].init, 1) = {} BY <2>1, TakesFirst
  <2>3. BringupTypeOK' BY <1>1 DEF Load, BInv, BringupTypeOK, Functions, oops
  <2>4. Progress' BY <1>1, <2>2 DEF Load, Progress, Functions
  <2>. QED  BY <2>3, <2>4 DEF BInv
<1>2. CASE Unload \/ Remove
  <2>1. Resources(drv) \subseteq Driver[drv].forgets \union Gives(Driver[drv].exit, 1)
    BY <1>2 DEF Unload, UnloadFrom, Remove, BInv, Balanced, BringupTypeOK
  <2>2. held \subseteq Resources(drv) BY DEF BInv, BringupTypeOK
  <2>3. BringupTypeOK' BY <1>2 DEF Unload, UnloadFrom, Remove, BInv, BringupTypeOK, Functions
  <2>4. mode' = "exit" /\ at' = 1 /\ drv' = drv /\ held' = held
    BY <1>2 DEF Unload, UnloadFrom, Remove, BInv, Progress
  <2>5. Progress' BY <2>1, <2>2, <2>4 DEF Progress, Functions
  <2>. QED  BY <2>3, <2>5 DEF BInv
<1>3. CASE Reboot
  <2>0. 0 \in 0 .. MaxFiles /\ 1 \in Nat BY MaxFilesAssumption
  <2>1. BringupTypeOK' BY <1>3, <2>0, Zenon DEF Reboot, BInv, BringupTypeOK
  <2>2. Progress' BY <1>3 DEF Reboot, Progress, Functions
  <2>. QED  BY <2>1, <2>2 DEF BInv
<1>4. CASE Close
  BY <1>4, MaxFilesAssumption DEF Close, BInv, BringupTypeOK, Progress
<1>5. ASSUME NEW e \in Driver[drv].serves, Call(e) \/ Open(e) PROVE BInv'
  <2>1. missing' \subseteq Resources(drv)
    <3>1. e.needs \subseteq AllNeeds(drv) BY DEF AllNeeds
    <3>2. AllNeeds(drv) \subseteq Resources(drv) BY DEF BInv, Balanced, BringupTypeOK
    <3>. QED  BY <1>5, <3>1, <3>2 DEF Call, Open, Follow, BInv, BringupTypeOK
  <2>2. /\ UNCHANGED <<drv, mode, at, held, lost>>
        /\ files' = files \/ (files' = files + 1 /\ files < MaxFiles)
    BY <1>5 DEF Call, Open
  <2>. QED  BY <2>1, <2>2, MaxFilesAssumption DEF BInv, BringupTypeOK, Progress
<1>6. CASE UNCHANGED bringup
  BY <1>6 DEF bringup, BInv, BringupTypeOK, Progress
<1>. QED  BY <1>1, <1>2, <1>3, <1>4, <1>5, <1>6

\* Every step of a driver keeps the bounds on what it holds.
LEMMA BringupInv == BInv /\ [BringupNext]_bringup => BInv'
  BY AcquireInv, RefuseInv, RefuseUnseenInv, DereferenceInv, ReleaseInv, ReturnInv, AroundInv
  DEF BringupNext

-----------------------------------------------------------------------------
(* Ordered scripts: what is published is ready.                             *)

\* The place in the scripts of an ordered driver.
Place ==
    /\ mode = "init" => at <= Len(Driver[drv].init) + 1
    /\ mode = "exit" => Driver[drv].unloads \/ Driver[drv].bus

\* A file that is open outside the platform bus: the driver is in, or in the
\* last statements of its init function, and has what any entry point needs.
FilesReady ==
    files > 0 /\ ~Driver[drv].bus =>
        /\ mode \in {"init", "in"}
        /\ \/ AllNeeds(drv) \subseteq held \union lost
           \/ Driver[drv].early /\ mode = "init"
        /\ mode = "init" =>
              \E e \in Driver[drv].serves :
                  e.file /\ e.through \subseteq Takes(Driver[drv].init, at)

\* The rest of an undo or exit script follows pointers to what is there, was
\* refused, or is released blindly or twice.
UsesReady ==
    /\ mode = "undo" =>
          Uses(Driver[drv].undo, at) \subseteq held \union lost \union Driver[drv].blind
    /\ mode = "exit" =>
          Uses(Driver[drv].exit, at) \subseteq held \union lost \union Driver[drv].twice

OInv ==
    /\ Ordered
    /\ Place
    /\ FilesReady
    /\ UsesReady
    /\ PublishedReady
    /\ OopsExplained

\* What Ordered says of an init function that has reached its statement k.
LEMMA Registered ==
    ASSUME BInv, Ordered, NEW e \in Driver[drv].serves,
           NEW k \in 1 .. (Len(Driver[drv].init) + 1),
           Driver[drv].early => k = Len(Driver[drv].init) + 1,
           e.through \subseteq Takes(Driver[drv].init, k)
    PROVE  /\ e.needs \subseteq Takes(Driver[drv].init, k)
           /\ e.file => AllNeeds(drv) \subseteq Takes(Driver[drv].init, k)
<1>1. RegistersLast(drv) BY DEF BInv, BringupTypeOK, Ordered
<1>. QED  BY <1>1 DEF RegistersLast

\* One more resource, got or refused without notice.
LEMMA TakeOrdered ==
    ASSUME BInv, OInv, Acquire \/ RefuseUnseen
    PROVE  OInv'
<1>. DEFINE init == Driver[drv].init
<1>1. /\ at \in DOMAIN Script /\ mode \in Functions
      /\ Script[at].op \in {"get", "add"} /\ ~oops
  BY DEF Acquire, RefuseUnseen, At
<1>2. mode = "init" /\ Script = init BY <1>1, ScriptShape DEF Script
<1>3. /\ mode' = "init" /\ at' = at + 1 /\ held \union lost \subseteq (held \union lost)'
      /\ UNCHANGED <<drv, files, missing>>
  BY <1>2 DEF Acquire, RefuseUnseen
<1>4. BInv' BY AcquireInv, RefuseUnseenInv
<1>5. (held \union lost)' = Takes(init, at + 1)
  BY <1>3, <1>4 DEF BInv, Progress
<1>6. at + 1 \in 1 .. (Len(init) + 1) /\ DOMAIN init \subseteq Nat \ {0} /\ at \in DOMAIN init
  BY <1>1, <1>2, ScriptShape
<1>7. Takes(init, at) \subseteq Takes(init, at + 1)
  BY <1>1, <1>2, <1>6, TakesNext
<1>8. Place' BY <1>3, <1>6 DEF Place
<1>9. FilesReady'
  BY <1>2, <1>3, <1>7 DEF OInv, FilesReady
<1>10. UsesReady' BY <1>3 DEF UsesReady
<1>11. PublishedReady'
  <2>. SUFFICES ASSUME NEW e \in Driver[drv].serves, e.through \subseteq held', ~Driver[drv].early
                PROVE  e.needs \subseteq (held \union lost)'
    BY <1>3 DEF PublishedReady
  <2>. QED  BY <1>5, <1>6, Registered DEF OInv
<1>12. OopsExplained' BY <1>1, <1>3 DEF OopsExplained, oops
<1>. QED  BY <1>3, <1>8, <1>9, <1>10, <1>11, <1>12 DEF OInv

\* The jump to a label: no file is open yet.
LEMMA RefuseOrdered ==
    ASSUME BInv, OInv, Refuse
    PROVE  OInv'
<1>. DEFINE init == Driver[drv].init
<1>1. /\ at \in DOMAIN Script /\ mode \in Functions /\ ~oops
      /\ Script[at].op = "get" /\ Script[at].to # Ignored
  BY DEF Refuse, RefuseTo, At
<1>2. mode = "init" /\ Script = init BY <1>1, ScriptShape DEF Script
<1>3. /\ mode' = "undo" /\ at' = init[at].to /\ held' = held \ init[at].puts
      /\ UNCHANGED <<drv, lost, files, missing>>
  BY <1>2 DEF Refuse, RefuseTo
<1>4. held \union lost = Takes(init, at) BY <1>2 DEF BInv, Progress
<1>5. RegistersLast(drv) /\ UsesWhatIsThere(drv) BY DEF OInv, BInv, BringupTypeOK, Ordered
<1>6. \A e \in Driver[drv].serves :
         e.through \subseteq Takes(init, at) =>
            ~e.file /\ e.needs \subseteq Takes(init, at) \ init[at].puts
  BY <1>1, <1>2, <1>5 DEF RegistersLast
<1>7. FilesReady' BY <1>2, <1>3, <1>6 DEF OInv, FilesReady
<1>8. UsesReady'
  <2>1. Uses(Driver[drv].undo, init[at].to) \ Driver[drv].blind
           \subseteq Takes(init, at) \ init[at].puts
    BY <1>1, <1>2, <1>5 DEF UsesWhatIsThere
  <2>. QED  BY <1>3, <1>4, <2>1 DEF UsesReady
<1>9. PublishedReady' BY <1>3, <1>4, <1>6 DEF PublishedReady
<1>10. Place' /\ OopsExplained' BY <1>1, <1>3 DEF Place, OopsExplained, oops
<1>. QED  BY <1>3, <1>7, <1>8, <1>9, <1>10 DEF OInv

\* A statement that follows a pointer, or releases: what is missing was
\* refused, and no entry point that is still reached needs what goes.
LEMMA ScriptOrdered ==
    ASSUME BInv, OInv, Dereference \/ Release
    PROVE  OInv'
<1>1. /\ at \in DOMAIN Script /\ mode \in Functions /\ ~oops
      /\ Script[at].op \in {"touch", "put", "free"}
  BY DEF Dereference, Release, At
<1>2. /\ at' = at + 1 /\ UNCHANGED <<drv, mode, lost, files>>
      /\ held' = held \/ (Releases(Script[at]) /\ held' = held \ Script[at].what)
      /\ missing' # {} => /\ missing' = Script[at].what \ held
                          /\ Script[at].op \in {"touch", "put"}
  <2>1. missing' # {} => /\ missing' = Script[at].what \ held
                         /\ Script[at].op \in {"touch", "put"}
    BY DEF Dereference, Release, Follow, At, oops
  <2>2. CASE Dereference BY <2>1, <2>2 DEF Dereference
  <2>3. CASE Release
    <3>1. Releases(Script[at]) BY <2>3 DEF Release, Releases, At
    <3>. QED  BY <2>1, <2>3, <3>1 DEF Release
  <2>. QED  BY <2>2, <2>3
<1>3. BInv' BY DereferenceInv, ReleaseInv
<1>4. /\ Len(Script) \in Nat /\ DOMAIN Script = 1 .. Len(Script)
      /\ DOMAIN Script \subseteq Nat \ {0}
  BY <1>1, ScriptShape
<1>5. /\ RegistersLast(drv) /\ UnregistersFirst(drv) /\ UsesWhatIsThere(drv)
  BY DEF OInv, BInv, BringupTypeOK, Ordered
<1>6. CASE mode = "init"
  <2>1. Script = Driver[drv].init /\ held' = held /\ Script[at].op = "touch"
    BY <1>1, <1>2, <1>6, ScriptShape DEF Script, Releases
  <2>2. Takes(Script, at + 1) = Takes(Script, at) BY <1>1, <1>4, <2>1, TakesNext
  <2>3. Place' BY <1>1, <1>2, <1>4, <1>6, <2>1 DEF Place
  <2>4. FilesReady' BY <1>2, <1>6, <2>1, <2>2 DEF OInv, FilesReady
  <2>5. UsesReady' BY <1>2, <1>6 DEF UsesReady
  <2>6. PublishedReady' BY <1>1, <1>2, <2>1 DEF OInv, PublishedReady
  <2>7. OopsExplained'
    <3>1. Script[at].what \subseteq held \union lost
      BY <1>1, <1>5, <1>6, <2>1 DEF UsesWhatIsThere, BInv, Progress
    <3>. QED  BY <1>2, <3>1 DEF OopsExplained
  <2>. QED  BY <1>2, <2>3, <2>4, <2>5, <2>6, <2>7 DEF OInv
<1>7. CASE mode \in {"undo", "exit"}
  <2>1. Uses(Script, at + 1) \subseteq Uses(Script, at) BY <1>1, <1>4, UsesNext
  <2>. DEFINE excused == IF mode = "undo" THEN Driver[drv].blind ELSE Driver[drv].twice
  <2>2. Releases(Script[at]) => Script[at].what \intersect Uses(Script, at + 1) \subseteq excused
    BY <1>1, <1>5, <1>7 DEF UsesWhatIsThere, Script
  <2>3. Uses(Script, at) \subseteq held \union lost \union excused
    BY <1>7 DEF OInv, UsesReady, Script
  <2>4. Place' BY <1>2, <1>7 DEF OInv, Place
  <2>5. FilesReady' BY <1>2, <1>7 DEF OInv, FilesReady
  <2>6. UsesReady'
    <3>1. Uses(Script, at + 1) \subseteq held' \union lost \union excused
      BY <1>2, <2>1, <2>2, <2>3
    <3>. QED  BY <1>2, <1>7, <3>1 DEF UsesReady, Script
  <2>7. PublishedReady'
    <3>. SUFFICES ASSUME NEW e \in Driver[drv].serves, e.through \subseteq held'
                  PROVE  e.needs \subseteq held' \union lost
      BY <1>2 DEF PublishedReady
    <3>1. e.needs \subseteq held \union lost
      BY <1>1, <1>2, <1>7 DEF OInv, PublishedReady
    <3>2. ASSUME Releases(Script[at]) PROVE Script[at].what \intersect e.needs = {}
      <4>1. CASE mode = "undo"
        <5>1. Script = Driver[drv].undo BY <4>1 DEF Script
        <5>2. held' \subseteq Gives(Script, at + 1)
          BY <1>2, <1>3, <4>1, <5>1 DEF BInv, Progress
        <5>. QED  BY <1>1, <1>5, <3>2, <5>1, <5>2 DEF UnregistersFirst
      <4>2. CASE mode = "exit"
        <5>1. Script = Driver[drv].exit /\ (Driver[drv].unloads \/ Driver[drv].bus)
          BY <4>2 DEF Script, OInv, Place
        <5>2. held' \subseteq Driver[drv].forgets \union Gives(Script, at + 1)
          BY <1>2, <1>3, <4>2, <5>1 DEF BInv, Progress
        <5>. QED  BY <1>1, <1>5, <3>2, <5>1, <5>2 DEF UnregistersFirst
      <4>. QED  BY <1>7, <4>1, <4>2
    <3>. QED  BY <1>2, <3>1, <3>2
  <2>8. OopsExplained'
    <3>1. Script[at].op \in {"touch", "put"} => Script[at].what \subseteq Uses(Script, at)
      BY <1>1, <1>4, UsesNext
    <3>2. missing' \subseteq lost \union excused BY <1>2, <2>3, <3>1
    <3>. QED  BY <1>2, <1>7, <3>2 DEF OopsExplained
  <2>. QED  BY <1>2, <2>4, <2>5, <2>6, <2>7, <2>8 DEF OInv
<1>. QED  BY <1>1, <1>6, <1>7 DEF Functions

\* Returning keeps what is published ready.
LEMMA ReturnOrdered ==
    ASSUME BInv, OInv, Return
    PROVE  OInv'
<1>1. mode \in Functions /\ at = Len(Script) + 1 /\ ~oops BY DEF Return
<1>2. UNCHANGED <<drv, held, lost, files, missing>> BY DEF Return
<1>3. /\ mode = "init" => mode' = "in"
      /\ mode # "init" => mode' = "out"
  BY <1>1 DEF Return, Functions
<1>4. Place' /\ UsesReady' /\ OopsExplained'
  BY <1>1, <1>2, <1>3 DEF Place, UsesReady, OopsExplained, oops
<1>5. CASE mode = "init"
  <2>1. Script = Driver[drv].init /\ Len(Script) \in Nat
    BY <1>1, <1>5, ScriptShape DEF Script
  <2>2. held \union lost = Takes(Driver[drv].init, at) BY <1>5 DEF BInv, Progress
  <2>3. \A e \in Driver[drv].serves :
           e.through \subseteq Takes(Driver[drv].init, at) =>
              /\ e.needs \subseteq Takes(Driver[drv].init, at)
              /\ e.file => AllNeeds(drv) \subseteq Takes(Driver[drv].init, at)
    BY <1>1, <2>1, Registered DEF OInv
  <2>4. FilesReady' BY <1>2, <1>3, <1>5, <2>2, <2>3 DEF OInv, FilesReady
  <2>5. PublishedReady' BY <1>2, <2>2, <2>3 DEF PublishedReady
  <2>. QED  BY <1>2, <1>4, <2>4, <2>5 DEF OInv
<1>6. CASE mode # "init"
  <2>1. FilesReady' BY <1>1, <1>2, <1>6 DEF OInv, FilesReady, Functions
  <2>2. PublishedReady' BY <1>1, <1>2, <1>6 DEF OInv, PublishedReady
  <2>. QED  BY <1>2, <1>4, <2>1, <2>2 DEF OInv
<1>. QED  BY <1>5, <1>6

\* The kernel and the programs around the driver.
LEMMA AroundOrdered ==
    ASSUME BInv, OInv,
           \/ \E d \in Drivers : Load(d)
           \/ Unload \/ Remove \/ Close \/ Reboot
           \/ \E e \in Driver[drv].serves : Call(e) \/ Open(e)
           \/ UNCHANGED bringup
    PROVE  OInv'
<1>1. ASSUME NEW d \in Drivers, Load(d) PROVE OInv'
  <2>1. \A e \in Driver[d].serves : e.through # {} BY DEF OInv, Ordered, RegistersLast
  <2>2. Len(Driver[d].init) \in Nat BY DEF BInv, Balanced, Functions
  <2>3. Place' /\ UsesReady' BY <1>1, <2>2 DEF Load, Place, UsesReady
  <2>4. PublishedReady' BY <1>1, <2>1 DEF Load, PublishedReady
  <2>5. files \in Nat BY MaxFilesAssumption DEF BInv, BringupTypeOK
  <2>6. FilesReady' BY <1>1, <2>5 DEF Load, FilesReady
  <2>7. OopsExplained' BY <1>1 DEF Load, OopsExplained, oops
  <2>. QED  BY <2>3, <2>4, <2>6, <2>7 DEF OInv
<1>2. CASE Unload \/ Remove
  <2>1. /\ mode = "in" /\ mode' = "exit" /\ at' = 1 /\ ~oops
        /\ UNCHANGED <<drv, held, lost, files, missing>>
        /\ (Driver[drv].unloads /\ files = 0) \/ Driver[drv].bus
    BY <1>2 DEF Unload, UnloadFrom, Remove, BInv, Progress
  <2>2. Uses(Driver[drv].exit, 1) \subseteq held \union lost
    <3>1. Uses(Driver[drv].exit, 1) \subseteq Resources(drv)
      BY DEF BInv, Balanced, BringupTypeOK, Functions
    <3>. QED  BY <2>1, <3>1 DEF BInv, Progress
  <2>3. Place' /\ UsesReady' BY <2>1, <2>2 DEF Place, UsesReady
  <2>4. FilesReady' BY <2>1 DEF FilesReady
  <2>5. PublishedReady' BY <2>1 DEF OInv, PublishedReady
  <2>6. OopsExplained' BY <2>1 DEF OopsExplained, oops
  <2>. QED  BY <2>1, <2>3, <2>4, <2>5, <2>6 DEF OInv
<1>3. CASE Reboot
  <2>1. \A e \in Driver[drv].serves : e.through # {}
    BY DEF OInv, Ordered, RegistersLast, BInv, BringupTypeOK
  <2>. QED
    BY <1>3, <2>1
    DEF Reboot, OInv, Place, FilesReady, UsesReady, PublishedReady, OopsExplained
<1>4. CASE Close
  <2>1. /\ ~oops /\ files > 0 /\ files' = files - 1 /\ files \in Nat
        /\ UNCHANGED <<drv, mode, at, held, lost, missing>>
    BY <1>4, MaxFilesAssumption DEF Close, BInv, BringupTypeOK
  <2>2. FilesReady' BY <2>1 DEF OInv, FilesReady
  <2>3. Place' /\ UsesReady' BY <2>1 DEF OInv, Place, UsesReady
  <2>4. PublishedReady' BY <2>1 DEF OInv, PublishedReady, oops
  <2>5. OopsExplained' BY <2>1 DEF OopsExplained, oops
  <2>. QED  BY <2>1, <2>2, <2>3, <2>4, <2>5 DEF OInv
<1>5. ASSUME NEW e \in Driver[drv].serves, Call(e) PROVE OInv'
  <2>1. /\ ~oops /\ UNCHANGED <<drv, mode, at, held, lost, files>>
        /\ e.through \subseteq held \/ files > 0
        /\ missing' = e.needs \ held
    BY <1>5 DEF Call, Reached, Follow
  <2>2. OopsExplained'
    <3>. SUFFICES ASSUME NEW r \in e.needs, r \notin held, r \notin lost
                  PROVE  \/ mode = "init" /\ Driver[drv].early /\ r \notin Takes(Script, at)
                         \/ Driver[drv].bus /\ files > 0 /\ r \in AllNeeds(drv)
      BY <2>1 DEF OopsExplained, Script
    <3>1. r \in AllNeeds(drv) BY DEF AllNeeds
    <3>2. (Driver[drv].early /\ mode = "init") \/ (Driver[drv].bus /\ files > 0)
      BY <2>1, <3>1 DEF OInv, PublishedReady, FilesReady
    <3>3. mode = "init" => r \notin Takes(Script, at) BY DEF BInv, Progress, Script
    <3>. QED  BY <3>1, <3>2, <3>3
  <2>3. Place' /\ UsesReady' /\ FilesReady' BY <2>1 DEF OInv, Place, UsesReady, FilesReady
  <2>4. PublishedReady' BY <2>1 DEF OInv, PublishedReady
  <2>. QED  BY <2>1, <2>2, <2>3, <2>4 DEF OInv
<1>6. ASSUME NEW e \in Driver[drv].serves, Open(e) PROVE OInv'
  <2>1. /\ ~oops /\ UNCHANGED <<drv, mode, at, held, lost, missing>>
        /\ e.file /\ e.through \subseteq held
        /\ mode \in {"init", "in"} \/ Driver[drv].bus
    BY <1>6 DEF Open
  <2>2. FilesReady'
    <3>1. CASE mode = "init"
      <4>1. held \union lost = Takes(Driver[drv].init, at) BY <3>1 DEF BInv, Progress
      <4>2. at \in 1 .. (Len(Driver[drv].init) + 1)
        <5>1. Len(Driver[drv].init) \in Nat BY DEF BInv, BringupTypeOK, Balanced, Functions
        <5>. QED  BY <3>1, <5>1 DEF OInv, Place, BInv, BringupTypeOK, Progress, Functions
      <4>3. Driver[drv].early \/ AllNeeds(drv) \subseteq held \union lost
        BY <2>1, <4>1, <4>2, Registered DEF OInv
      <4>. QED  BY <2>1, <3>1, <4>1, <4>3 DEF FilesReady
    <3>2. CASE mode = "in"
      <4>1. held \union lost = Takes(Driver[drv].init, Len(Driver[drv].init) + 1)
        BY <3>2 DEF BInv, Progress, Resources
      <4>2. Len(Driver[drv].init) + 1 \in 1 .. (Len(Driver[drv].init) + 1)
        BY DEF BInv, BringupTypeOK, Balanced, Functions
      <4>3. AllNeeds(drv) \subseteq held \union lost
        BY <2>1, <4>1, <4>2, Registered DEF OInv
      <4>. QED  BY <2>1, <3>2, <4>3 DEF FilesReady
    <3>3. CASE Driver[drv].bus BY <2>1, <3>3 DEF FilesReady
    <3>. QED  BY <2>1, <3>1, <3>2, <3>3
  <2>3. Place' /\ UsesReady' BY <2>1 DEF OInv, Place, UsesReady
  <2>4. PublishedReady' BY <2>1 DEF OInv, PublishedReady, oops
  <2>5. OopsExplained' BY <2>1 DEF OopsExplained, oops
  <2>. QED  BY <2>1, <2>2, <2>3, <2>4, <2>5 DEF OInv
<1>7. CASE UNCHANGED bringup
  <2>1. Place' /\ FilesReady' /\ UsesReady'
    BY <1>7 DEF bringup, OInv, Place, FilesReady, UsesReady
  <2>2. PublishedReady' BY <1>7 DEF bringup, OInv, PublishedReady, oops
  <2>3. OopsExplained' BY <1>7 DEF bringup, OInv, OopsExplained, Script
  <2>. QED  BY <1>7, <2>1, <2>2, <2>3 DEF bringup, OInv
<1>. QED  BY <1>1, <1>2, <1>3, <1>4, <1>5, <1>6, <1>7

\* Every step of a driver with ordered scripts keeps what is published ready.
LEMMA OrderedInv == BInv /\ OInv /\ [BringupNext]_bringup => OInv'
  BY TakeOrdered, RefuseOrdered, ScriptOrdered, ReturnOrdered, AroundOrdered
  DEF BringupNext

\* Before the first insmod.
LEMMA OrderedInit == Ordered /\ BringupInit => OInv
<1>. SUFFICES ASSUME Ordered, BringupInit PROVE OInv
  OBVIOUS
<1>1. \A e \in Driver[drv].serves : e.through # {}
  BY DEF BringupInit, Ordered, RegistersLast
<1>. QED
  BY <1>1
  DEF BringupInit, OInv, Place, FilesReady, UsesReady, PublishedReady, OopsExplained

-----------------------------------------------------------------------------
(* The palette.                                                             *)

IInv == Balanced /\ TypeOK /\ Progress /\ NoColorForgotten

\* Before the first insmod, with the palette clear.
LEMMA InitInv == Balanced /\ Init => IInv
<1>. SUFFICES ASSUME Balanced, Init PROVE IInv
  OBVIOUS
<1>0. 0 \in 0 .. MaxFiles /\ 1 \in Nat BY MaxFilesAssumption
<1>1. TypeOK
  <2>1. BringupTypeOK BY <1>0, Zenon DEF Init, BringupInit, BringupTypeOK
  <2>. QED  BY <2>1 DEF Init, TypeOK
<1>2. Progress BY DEF Init, BringupInit, Progress, Functions
<1>3. NoColorForgotten BY DEF Init, NoColorForgotten
<1>. QED  BY <1>1, <1>2, <1>3 DEF IInv

PaletteTypeOK ==
    /\ palette_buffer \in [Entries -> Colors \union {CLEAR}]
    /\ palette_ready \in {0, 1}
    /\ hw \in [Entries -> Colors]
    /\ wanted \in [Entries -> Colors]

\* Only AllocFb brings the structure in, and it starts the palette afresh.
LEMMA DriversColors ==
    ASSUME PaletteTypeOK, NoColorForgotten, AllocFb \/ OtherStep \/ UNCHANGED vars
    PROVE  PaletteTypeOK' /\ NoColorForgotten'
<1>1. CASE AllocFb
  BY <1>1 DEF AllocFb, NoColorForgotten, PaletteTypeOK
<1>2. CASE OtherStep \/ UNCHANGED vars
  <2>1. Has("fb")' => Has("fb") BY <1>2 DEF OtherStep, vars, bringup, Has
  <2>2. UNCHANGED palette BY <1>2 DEF OtherStep, vars
  <2>. QED  BY <2>1, <2>2 DEF NoColorForgotten, PaletteTypeOK, palette
<1>. QED  BY <1>1, <1>2

\* A colour that is set, and the interrupt that writes it.
LEMMA PaletteColors ==
    ASSUME PaletteTypeOK, NoColorForgotten,
           (\E e \in Entries, c \in Colors : SetColor(e, c)) \/ FrameIrq \/ FrameIrqIdle
    PROVE  PaletteTypeOK' /\ NoColorForgotten' /\ UNCHANGED bringup
<1>1. ASSUME NEW e \in Entries, NEW c \in Colors, SetColor(e, c)
      PROVE  PaletteTypeOK' /\ NoColorForgotten'
  <2>1. PaletteTypeOK' BY <1>1 DEF SetColor, PaletteTypeOK
  <2>2. c # CLEAR BY ClearAssumption
  <2>3. Has("fb")' = Has("fb") BY <1>1 DEF SetColor, bringup, Has
  <2>4. ASSUME NEW f \in Entries, Has("fb")'
        PROVE  IF palette_buffer'[f] = CLEAR
               THEN hw'[f] = wanted'[f]
               ELSE palette_ready' = 1 /\ palette_buffer'[f] = wanted'[f]
    <3>1. CASE f = e BY <1>1, <2>2, <3>1 DEF SetColor, PaletteTypeOK
    <3>2. CASE f # e
      BY <1>1, <2>3, <2>4, <3>2 DEF SetColor, PaletteTypeOK, NoColorForgotten
    <3>. QED  BY <3>1, <3>2
  <2>. QED  BY <2>1, <2>4 DEF NoColorForgotten
<1>2. ASSUME FrameIrq PROVE PaletteTypeOK' /\ NoColorForgotten'
  <2>1. PICK busy \in SUBSET Entries : WritePalette(busy) BY <1>2 DEF FrameIrq
  <2>2. PaletteTypeOK'
    BY <1>2, <2>1 DEF FrameIrq, WritePalette, ReadyAfter, PaletteTypeOK
  <2>3. Has("fb")' = Has("fb") BY <1>2 DEF FrameIrq, bringup, Has
  <2>4. ASSUME NEW f \in Entries, Has("fb")'
        PROVE  IF palette_buffer'[f] = CLEAR
               THEN hw'[f] = wanted'[f]
               ELSE palette_ready' = 1 /\ palette_buffer'[f] = wanted'[f]
    <3>1. Has("fb") /\ wanted' = wanted BY <1>2, <2>3, <2>4 DEF FrameIrq
    <3>2. CASE f \in busy
      BY <2>1, <3>1, <3>2 DEF WritePalette, ReadyAfter, NoColorForgotten
    <3>3. CASE f \notin busy
      BY <2>1, <3>1, <3>3 DEF WritePalette, NoColorForgotten
    <3>. QED  BY <3>2, <3>3
  <2>. QED  BY <2>2, <2>4 DEF NoColorForgotten
<1>3. ASSUME FrameIrqIdle PROVE PaletteTypeOK' /\ NoColorForgotten'
  BY <1>3, DriversColors DEF FrameIrqIdle
<1>4. UNCHANGED bringup BY DEF SetColor, FrameIrq, FrameIrqIdle, vars
<1>. QED  BY <1>1, <1>2, <1>3, <1>4

\* Every step, of the driver or of the palette, keeps the invariant.
LEMMA NextInv == IInv /\ [Next]_vars => IInv' /\ [BringupNext]_bringup
<1>. SUFFICES ASSUME IInv, [Next]_vars PROVE IInv' /\ [BringupNext]_bringup
  OBVIOUS
<1>1. BInv /\ PaletteTypeOK /\ NoColorForgotten
  BY DEF IInv, BInv, TypeOK, PaletteTypeOK
<1>2. [BringupNext]_bringup /\ PaletteTypeOK' /\ NoColorForgotten'
  <2>1. CASE AllocFb \/ OtherStep \/ UNCHANGED vars
    BY <1>1, <2>1, DriversColors DEF AllocFb, OtherStep, BringupNext, vars
  <2>2. CASE (\E e \in Entries, c \in Colors : SetColor(e, c)) \/ FrameIrq \/ FrameIrqIdle
    BY <1>1, <2>2, PaletteColors
  <2>. QED  BY <2>1, <2>2 DEF Next
<1>3. BInv' BY <1>1, <1>2, BringupInv
<1>. QED  BY <1>2, <1>3 DEF IInv, BInv, TypeOK, PaletteTypeOK

\* The inductive invariant, for balanced scripts.
THEOREM Inductive == Balanced /\ Spec => []IInv
  BY InitInv, NextInv, PTL DEF Spec

\* Every variable keeps its type.
THEOREM TypeCorrect == Balanced /\ Spec => []TypeOK
<1>1. IInv => TypeOK BY DEF IInv
<1>. QED  BY <1>1, Inductive, PTL

\* An init function whose labels and exit function are balanced leaves nothing
\* behind when it fails, whichever of its calls is refused, and its exit
\* function leaves nothing but what it forgets: s3c_nand_init, s3c_nor,
\* rd_init, s3c2410fb_probe and the others of DriverTables.
THEOREM LeavesNothing == Balanced /\ Spec => []NothingLeft
<1>1. IInv => NothingLeft
  <2>. SUFFICES ASSUME IInv PROVE NothingLeft
    OBVIOUS
  <2>1. ASSUME mode = "undo", at > Len(Script) PROVE held = {}
    <3>1. BInv /\ mode \in Functions BY <2>1 DEF IInv, BInv, TypeOK, Functions
    <3>2. Gives(Script, at) = {}
      BY <2>1, <3>1, ScriptShape, GivesEnd DEF BInv, BringupTypeOK
    <3>. QED  BY <2>1, <3>2 DEF IInv, Progress, Script
  <2>. QED  BY <2>1 DEF IInv, Progress, NothingLeft
<1>. QED  BY <1>1, Inductive, PTL

\* No palette entry is forgotten by s3c2410fb_write_palette.
THEOREM ColorsKept == Balanced /\ Spec => []NoColorForgotten
<1>1. IInv => NoColorForgotten BY DEF IInv
<1>. QED  BY <1>1, Inductive, PTL

-----------------------------------------------------------------------------
(* What is published, for ordered scripts.                                  *)

\* The order of the scripts, with the bounds on what is held.
THEOREM OrderedInductive == Balanced /\ Ordered /\ Spec => []OInv
<1>1. Init => BringupInit BY DEF Init
<1>2. IInv => BInv BY DEF IInv, BInv, TypeOK
<1>3. IInv /\ OInv /\ [Next]_vars => OInv'
  BY <1>2, NextInv, OrderedInv
<1>4. Ordered /\ Init => OInv BY <1>1, OrderedInit
<1>. QED  BY <1>3, <1>4, Inductive, PTL DEF Spec

\* While something is registered its entry points have what they need, or it
\* was refused unnoticed: in the init and exit functions, and on every error
\* path that a refusal leads to.
THEOREM EntryPointsReady == Balanced /\ Ordered /\ Spec => []PublishedReady
<1>1. OInv => PublishedReady BY DEF OInv
<1>. QED  BY <1>1, OrderedInductive, PTL

\* What a driver whose scripts are ordered follows a pointer to in vain was
\* refused without its looking, is wanted between its registering and its
\* mapping, is released blindly on an error label or twice by its exit function,
\* or is needed by a file that outlived the binding.
THEOREM EveryOopsExplained == Balanced /\ Ordered /\ Spec => []OopsExplained
<1>1. OInv => OopsExplained BY DEF OInv
<1>. QED  BY <1>1, OrderedInductive, PTL

=============================================================================
