------------------------ MODULE MievLifecycleProofs ------------------------
(***************************************************************************)
(* Proofs about MievLifecycle, for any finite number of files.             *)
(***************************************************************************)
EXTENDS MievLifecycle, FiniteSetTheorems, TLAPS

(***************************************************************************)
(* PinnedOnceLive speaks of a loaded module only; it is inductive once the *)
(* count is known to be right while the module is still loading, when the  *)
(* device can be opened already: two references for every file that is not *)
(* closed, and one more between the ends of miev_open and miev_release.    *)
(***************************************************************************)
Opened == {f \in Files : file[f] \in {"open", "busy"}}

Counted ==
  /\ refs = 2 * Cardinality(OpenFiles) + Cardinality(Opened)
  /\ OpenFiles # {} => n >= 3 \/ phase = "failing"
  /\ phase = "going" => OpenFiles = {}
  /\ phase = "live" => n = 7

IInv == TypeOK /\ Counted

-----------------------------------------------------------------------------
\* The open files are some of the finitely many files.
LEMMA OpenFilesFinite ==
  /\ IsFiniteSet(OpenFiles) /\ IsFiniteSet(Opened)
  /\ Cardinality(OpenFiles) \in Nat /\ Cardinality(Opened) \in Nat
  /\ Cardinality(Files) \in Nat
  /\ Cardinality(OpenFiles) <= Cardinality(Files)
  /\ Cardinality(Opened) <= Cardinality(Files)
<1>1. OpenFiles \subseteq Files /\ Opened \subseteq Files
  BY DEF OpenFiles, Opened
<1>2. QED
  BY <1>1, FilesAssumption, FS_Subset, FS_CardinalityType

\* The same of the open files after a step.
LEMMA OpenFilesFiniteAfter ==
  /\ Cardinality(OpenFiles') \in Nat /\ Cardinality(Opened') \in Nat
  /\ Cardinality(Files) \in Nat
  /\ Cardinality(OpenFiles') <= Cardinality(Files)
  /\ Cardinality(Opened') <= Cardinality(Files)
<1>1. OpenFiles' \subseteq Files /\ Opened' \subseteq Files
  BY DEF OpenFiles, Opened
<1>2. QED
  BY <1>1, FilesAssumption, FS_Subset, FS_CardinalityType

\* A count of references that fits the files is in its range.
LEMMA CountInRange ==
  ASSUME refs' = 2 * Cardinality(OpenFiles') + Cardinality(Opened')
  PROVE  refs' \in 0 .. 3 * Cardinality(Files)
BY OpenFilesFiniteAfter

\* The resources held are the first n of Order: cdev is the third.
LEMMA HeldResources ==
  ASSUME n \in 0 .. 7
  PROVE  /\ Len(Order) = 7
         /\ n >= 3 => {"dev", "region", "cdev"} \subseteq Held
         /\ n >= 4 => "fifo" \in Held
         /\ "cdev" \in Held => n >= 3
<1>1. /\ Len(Order) = 7
      /\ Order[1] = "dev" /\ Order[2] = "region" /\ Order[3] = "cdev"
      /\ Order[4] = "fifo" /\ Order[5] = "class" /\ Order[6] = "device"
      /\ Order[7] = "workqueue"
  BY DEF Order
<1>2. ASSUME n >= 3 PROVE 1 \in 1 .. n /\ 2 \in 1 .. n /\ 3 \in 1 .. n
  BY <1>2
<1>3. ASSUME n >= 4 PROVE 4 \in 1 .. n
  BY <1>3
<1>4. ASSUME "cdev" \in Held PROVE n >= 3
  <2>1. PICK i \in 1 .. n : Order[i] = "cdev"
    BY <1>4 DEF Held
  <2>2. i = 3
    BY <1>1, <2>1
  <2>3. QED
    BY <2>1, <2>2
<1>5. QED
  BY <1>1, <1>2, <1>3, <1>4 DEF Held

-----------------------------------------------------------------------------
\* The inductive invariant holds before the module is loaded.
LEMMA InitIInv == Init => IInv
<1> SUFFICES ASSUME Init PROVE IInv
  OBVIOUS
<1>1. OpenFiles = {} /\ Opened = {}
  BY DEF Init, OpenFiles, Opened
<1>2. Cardinality(OpenFiles) = 0 /\ Cardinality(Opened) = 0
  BY <1>1, FS_EmptySet
<1>3. TypeOK
  BY OpenFilesFinite, HeldResources DEF Init, TypeOK
<1>4. Counted
  BY <1>1, <1>2 DEF Init, Counted
<1>5. QED
  BY <1>3, <1>4 DEF IInv

(***************************************************************************)
(* Loading, unloading and the files preserve the invariant.  The steps     *)
(* that matter: a release that takes the last resource resets the count,   *)
(* which the files it orphans leave; an exit begins only at count zero.    *)
(***************************************************************************)
LEMMA NextIInv == IInv /\ [Next]_vars => IInv'
<1> SUFFICES ASSUME IInv, [Next]_vars PROVE IInv'
  OBVIOUS
<1> USE DEF IInv
<1>0. /\ n \in 0 .. 7 /\ Len(Order) = 7
      /\ phase \in {"out", "loading", "failing", "live", "going"}
      /\ phase = "out" <=> n = 0
      /\ file \in [Files -> {"closed", "opening", "open", "busy", "closing", "orphan"}]
      /\ refs \in 0 .. 3 * Cardinality(Files)
  <2>1. Len(Order) = 7
    BY DEF Order
  <2>2. QED
    BY <2>1 DEF TypeOK
<1>1. CASE Acquire
  <2>1. OpenFiles' = OpenFiles /\ Opened' = Opened
    BY <1>1 DEF Acquire, OpenFiles, Opened
  <2>2. TypeOK'
    BY <1>0, <1>1 DEF Acquire, TypeOK
  <2>3. Counted'
    BY <1>0, <1>1, <2>1 DEF Acquire, Counted
  <2>4. QED
    BY <2>2, <2>3
<1>2. CASE Fail
  <2>1. OpenFiles' = OpenFiles /\ Opened' = Opened
    BY <1>2 DEF Fail, OpenFiles, Opened
  <2>2. TypeOK'
    BY <1>0, <1>2 DEF Fail, TypeOK
  <2>3. Counted'
    BY <1>0, <1>2, <2>1 DEF Fail, Counted
  <2>4. QED
    BY <2>2, <2>3
<1>3. CASE Release
  <2>1. TypeOK'
    BY <1>0, <1>3, OpenFilesFinite DEF Release, TypeOK
  <2>2. CASE n' = 0
    <3>1. OpenFiles' = {} /\ Opened' = {}
      BY <1>0, <1>3, <2>2 DEF Release, OpenFiles, Opened
    <3>2. Cardinality(OpenFiles') = 0 /\ Cardinality(Opened') = 0
      BY <3>1, FS_EmptySet
    <3>3. phase' = "out" /\ refs' = 0
      BY <1>3, <2>2 DEF Release
    <3>4. refs' = 2 * Cardinality(OpenFiles') + Cardinality(Opened')
      BY <3>2, <3>3
    <3>5. Counted'
      BY <3>1, <3>3, <3>4 DEF Counted
    <3>6. QED
      BY <2>1, <3>5
  <2>3. CASE n' # 0
    <3>1. file' = file
      BY <1>0, <1>3, <2>3 DEF Release
    <3>2. OpenFiles' = OpenFiles /\ Opened' = Opened
      BY <3>1 DEF OpenFiles, Opened
    <3>3. Counted'
      BY <1>3, <2>3, <3>2 DEF Release, Counted
    <3>4. QED
      BY <2>1, <3>3
  <2>4. QED
    BY <2>2, <2>3
<1>4. CASE BeginExit
  <2>1. OpenFiles' = OpenFiles /\ Opened' = Opened
    BY <1>4 DEF BeginExit, OpenFiles, Opened
  <2>2. Cardinality(OpenFiles) = 0
    BY <1>4, OpenFilesFinite DEF BeginExit, Counted
  <2>3. OpenFiles = {}
    BY <2>2, OpenFilesFinite, FS_EmptySet
  <2>4. TypeOK'
    BY <1>0, <1>4 DEF BeginExit, TypeOK
  <2>5. Counted'
    BY <1>0, <1>4, <2>1, <2>3 DEF BeginExit, Counted
  <2>6. QED
    BY <2>4, <2>5
<1>5. ASSUME NEW f \in Files, OpenBegin(f)
      PROVE  IInv'
  <2>1. OpenFiles' = OpenFiles \cup {f} /\ f \notin OpenFiles /\ Opened' = Opened
    BY <1>0, <1>5 DEF OpenBegin, OpenFiles, Opened
  <2>2. Cardinality(OpenFiles') = Cardinality(OpenFiles) + 1
    BY <2>1, OpenFilesFinite, FS_AddElement
  <2>3. refs' = 2 * Cardinality(OpenFiles') + Cardinality(Opened')
    BY <1>5, <2>1, <2>2, OpenFilesFinite DEF OpenBegin, Counted
  <2>4. n >= 3 /\ phase # "going"
    BY <1>0, <1>5, HeldResources DEF OpenBegin
  <2>5. TypeOK'
    BY <1>0, <1>5, <2>3, CountInRange DEF OpenBegin, TypeOK
  <2>6. Counted'
    BY <1>5, <2>3, <2>4 DEF OpenBegin, Counted
  <2>7. QED
    BY <2>5, <2>6
<1>6. ASSUME NEW f \in Files, OpenEnd(f)
      PROVE  IInv'
  <2>1. Opened' = Opened \cup {f} /\ f \notin Opened /\ OpenFiles' = OpenFiles
    BY <1>0, <1>6 DEF OpenEnd, OpenFiles, Opened
  <2>2. Cardinality(Opened') = Cardinality(Opened) + 1
    BY <2>1, OpenFilesFinite, FS_AddElement
  <2>3. refs' = 2 * Cardinality(OpenFiles') + Cardinality(Opened')
    BY <1>6, <2>1, <2>2, OpenFilesFinite DEF OpenEnd, Counted
  <2>4. TypeOK'
    BY <1>0, <1>6, <2>3, CountInRange DEF OpenEnd, TypeOK
  <2>5. Counted'
    BY <1>6, <2>1, <2>3 DEF OpenEnd, Counted
  <2>6. QED
    BY <2>4, <2>5
<1>7. ASSUME NEW f \in Files, Enter(f) \/ Leave(f)
      PROVE  IInv'
  <2>1. OpenFiles' = OpenFiles /\ Opened' = Opened
    BY <1>0, <1>7 DEF Enter, Leave, OpenFiles, Opened
  <2>2. TypeOK'
    BY <1>0, <1>7 DEF Enter, Leave, TypeOK
  <2>3. Counted'
    BY <1>7, <2>1 DEF Enter, Leave, Counted
  <2>4. QED
    BY <2>2, <2>3
<1>8. ASSUME NEW f \in Files, CloseBegin(f)
      PROVE  IInv'
  <2>1. Opened' = Opened \ {f} /\ f \in Opened /\ OpenFiles' = OpenFiles
    BY <1>0, <1>8 DEF CloseBegin, OpenFiles, Opened
  <2>2. Cardinality(Opened') = Cardinality(Opened) - 1
    BY <2>1, OpenFilesFinite, FS_RemoveElement
  <2>3. refs' = 2 * Cardinality(OpenFiles') + Cardinality(Opened')
    BY <1>8, <2>1, <2>2, OpenFilesFinite DEF CloseBegin, Counted
  <2>4. TypeOK'
    BY <1>0, <1>8, <2>3, CountInRange DEF CloseBegin, TypeOK
  <2>5. Counted'
    BY <1>8, <2>1, <2>3 DEF CloseBegin, Counted
  <2>6. QED
    BY <2>4, <2>5
<1>9. ASSUME NEW f \in Files, CloseEnd(f)
      PROVE  IInv'
  <2>1. OpenFiles' = OpenFiles \ {f} /\ f \in OpenFiles /\ Opened' = Opened
    BY <1>0, <1>9 DEF CloseEnd, OpenFiles, Opened
  <2>2. Cardinality(OpenFiles') = Cardinality(OpenFiles) - 1
    BY <2>1, OpenFilesFinite, FS_RemoveElement
  <2>3. refs' = 2 * Cardinality(OpenFiles') + Cardinality(Opened')
    BY <1>9, <2>1, <2>2, OpenFilesFinite DEF CloseEnd, Counted
  <2>4. TypeOK'
    BY <1>0, <1>9, <2>3, CountInRange DEF CloseEnd, TypeOK
  <2>5. Counted'
    BY <1>9, <2>1, <2>3 DEF CloseEnd, Counted
  <2>6. QED
    BY <2>4, <2>5
<1>10. CASE UNCHANGED vars
  <2>1. OpenFiles' = OpenFiles /\ Opened' = Opened
    BY <1>10 DEF vars, OpenFiles, Opened
  <2>2. QED
    BY <1>10, <2>1 DEF vars, TypeOK, Counted
<1>11. QED
  BY <1>1, <1>2, <1>3, <1>4, <1>5, <1>6, <1>7, <1>8, <1>9, <1>10 DEF Next

\* The inductive invariant holds in every state that can be reached.
LEMMA InvariantIInv == Spec => []IInv
BY InitIInv, NextIInv, PTL DEF Spec

\* The variables keep their types; the count never goes below zero.
THEOREM TypeCorrect == Spec => []TypeOK
BY InvariantIInv, PTL DEF IInv

(***************************************************************************)
(* A loaded module is removable exactly when no file is open, at whatever  *)
(* point of their opening and closing the files are, and what open files   *)
(* use stays.                                                              *)
(***************************************************************************)
THEOREM OpenFilesPinned == Spec => []PinnedOnceLive
<1>1. IInv => PinnedOnceLive
  <2> SUFFICES ASSUME IInv, phase \in {"live", "going"}
               PROVE  /\ refs = 0 <=> OpenFiles = {}
                      /\ OpenFiles # {} => {"dev", "cdev", "fifo"} \subseteq Held
    BY DEF PinnedOnceLive
  <2>1. Opened \subseteq OpenFiles
    BY DEF Opened, OpenFiles
  <2>2. ASSUME refs = 0 PROVE OpenFiles = {}
    <3>1. Cardinality(OpenFiles) = 0
      BY <2>2, OpenFilesFinite DEF IInv, Counted
    <3>2. QED
      BY <3>1, OpenFilesFinite, FS_EmptySet
  <2>3. ASSUME OpenFiles = {} PROVE refs = 0
    <3>1. Cardinality(OpenFiles) = 0 /\ Cardinality(Opened) = 0
      BY <2>1, <2>3, FS_EmptySet
    <3>2. QED
      BY <3>1 DEF IInv, Counted
  <2>4. OpenFiles # {} => n = 7
    BY DEF IInv, Counted
  <2>5. QED
    BY <2>2, <2>3, <2>4, HeldResources DEF IInv, Counted
<1>2. QED
  BY <1>1, InvariantIInv, PTL

\* Unloading never takes the device from under a file; a failed load may.
THEOREM OrphansByFailedLoad == Spec => OrphansOnlyByFailedLoad
<1>1. IInv /\ [Next]_vars =>
        [\A f \in Files : file'[f] = "orphan" /\ file[f] # "orphan" => phase = "failing"]_vars
  <2> SUFFICES ASSUME IInv, Next, NEW f \in Files,
                      file'[f] = "orphan", file[f] # "orphan"
               PROVE  phase = "failing"
    OBVIOUS
  <2>1. file \in [Files -> {"closed", "opening", "open", "busy", "closing", "orphan"}]
    BY DEF IInv, TypeOK
  <2>2. Release
    BY <2>1 DEF Next, Acquire, Fail, BeginExit, OpenBegin, OpenEnd, Enter, Leave,
                CloseBegin, CloseEnd
  <2>3. f \in OpenFiles
    BY <2>1, <2>2 DEF Release
  <2>4. QED
    BY <2>2, <2>3 DEF Release, IInv, Counted
<1>2. QED
  BY <1>1, InvariantIInv, PTL DEF Spec, OrphansOnlyByFailedLoad
=============================================================================
