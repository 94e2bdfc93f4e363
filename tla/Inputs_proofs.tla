---------------------------- MODULE Inputs_proofs ----------------------------
(***************************************************************************)
(* The two halves of a role's input.                                       *)
(*                                                                         *)
(* EdgeInput: its files and memory are published once, as one pair, for    *)
(* all sources, paths and bounds.                                          *)
(*                                                                         *)
(* InputMemory: what becomes of the memories of several sources, for any   *)
(* graphs and any edits of the model.  The first half is about identities: *)
(* a version gets the same one from every source that holds it and no      *)
(* other version does, so the draft holds together and every source has    *)
(* its place in it.  The second half follows the edits through their       *)
(* batches.                                                                *)
(***************************************************************************)
EXTENDS EdgeInput, InputMemory, FiniteSetTheorems, TLAPS

-----------------------------------------------------------------------------
(* EdgeInput: types *)

LEMMA BlankType == Blank \in Content
BY DEF Blank, Content

\* Applying a source keeps a draft a content.
LEMMA AdoptedType ==
    ASSUME NEW s \in Sources, NEW P \in SUBSET Paths, content \in Content
    PROVE  Adopted(s, P) \in Content
BY DEF Adopted, Content

LEMMA EditType ==
    ASSUME NEW p \in Paths, NEW d \in Content
    PROVE  [d EXCEPT ![p] = Edited] \in Content
BY DEF Content

-----------------------------------------------------------------------------
LEMMA InitType == EdgeInit => TypeOK
<1> SUFFICES ASSUME EdgeInit PROVE TypeOK
  OBVIOUS
<1>1. applied \in [Sources -> SUBSET Paths] /\ discarded \subseteq Sources
  BY DEF EdgeInit
<1>2. told \in Content
  BY BlankType DEF EdgeInit
<1>3. kept \in BOOLEAN /\ proc \in BOOLEAN /\ lostDraft \in BOOLEAN
  BY DEF EdgeInit
<1> QED
  BY <1>1, <1>2, <1>3 DEF EdgeInit, TypeOK, Phases, Steps

LEMMA NextType == TypeOK /\ [EdgeNext]_edgeVars => TypeOK'
<1> SUFFICES ASSUME TypeOK, [EdgeNext]_edgeVars PROVE TypeOK'
  OBVIOUS
<1> USE DEF TypeOK
<1>1. CASE Restart
  BY <1>1 DEF Restart, progress, target, archive, seen, bounds, Steps
<1>2. CASE Collect
  BY <1>2 DEF Collect, target, archive, seen, bounds, Phases, Steps
<1>3. CASE Resume
  BY <1>3 DEF Resume, progress, target, archive, seen, bounds, Phases, Steps
<1>4. CASE PrepareTarget
  BY <1>4, BlankType DEF PrepareTarget, progress, archive, seen, bounds, Steps
<1>5. CASE SaveFiles
  BY <1>5 DEF SaveFiles, target, archive, seen, bounds, Phases, Steps
<1>6. CASE SaveCall
  BY <1>6 DEF SaveCall, target, archive, seen, bounds
<1>7. CASE FinishFiles
  BY <1>7 DEF FinishFiles, target, archive, seen, bounds, Phases, Steps
<1>8. CASE Reap
  BY <1>8 DEF Reap, progress, target, archive, seen, bounds, Steps
<1>9. CASE FreezeFiles
  BY <1>9 DEF FreezeFiles, progress, target, seen, bounds, Steps
<1>10. CASE FreezeUnknown
  BY <1>10 DEF FreezeUnknown, progress, target, archive, seen, bounds, Steps
<1>11. CASE SaveMemoryPhase
  BY <1>11 DEF SaveMemoryPhase, target, archive, seen, bounds, Phases, Steps
<1>12. CASE KeepSealed
  BY <1>12 DEF KeepSealed, progress, target, archive, seen, bounds, Steps
<1>13. CASE OrganizeMemory
  BY <1>13 DEF OrganizeMemory, progress, target, archive, seen, bounds, Steps
<1>14. CASE SealMemory
  BY <1>14 DEF SealMemory, progress, target, seen, bounds, Steps
<1>15. CASE Publish
  BY <1>15 DEF Publish, target, archive, seen, bounds, Phases, Steps
<1>16. CASE ReadyInput
  BY <1>16 DEF ReadyInput, progress, archive, seen, bounds, Steps
<1>17. ASSUME NEW s \in Sources, NEW P \in SUBSET Paths, NEW replace \in BOOLEAN,
              Apply(s, P, replace)
       PROVE  TypeOK'
  <2>1. Adopted(s, P) \in Content
    <3>1. content \in Content
      BY <1>17 DEF Apply, Calling
    <3> QED  BY <3>1, AdoptedType
  <2> QED
    BY <1>17, <2>1 DEF Apply, progress, archive
<1>18. ASSUME NEW s \in Sources, Discard(s) PROVE TypeOK'
  BY <1>18 DEF Discard, target, archive, seen, bounds
<1>19. ASSUME NEW p \in Paths, NEW background \in BOOLEAN, Edit(p, background)
       PROVE  TypeOK'
  <2>1. [content EXCEPT ![p] = Edited] \in Content
    BY <1>19, EditType DEF Edit, Calling
  <2>2. proc' \in BOOLEAN
    BY <1>19 DEF Edit
  <2> QED
    BY <1>19, <2>1, <2>2 DEF Edit, progress, archive
<1>20. ASSUME NEW p \in Paths, BackgroundWrite(p) PROVE TypeOK'
  <2>1. [content EXCEPT ![p] = Edited] \in Content
    BY <1>20, EditType DEF BackgroundWrite
  <2> QED
    BY <1>20, <2>1 DEF BackgroundWrite, progress, archive, bounds
<1>21. CASE SaveCallFails
  BY <1>21 DEF SaveCallFails, progress, target, archive, seen
<1>22. CASE Fail
  <2>1. proc' \in BOOLEAN
    BY <1>22 DEF Fail
  <2> QED
    BY <1>22, <2>1 DEF Fail, progress, target, archive, seen, Steps
<1>23. CASE Crash
  <2>1. lostDraft' \in BOOLEAN
    BY <1>23 DEF Crash
  <2>2. content' \in Content \cup {None} /\ kept' \in BOOLEAN /\ proc' \in BOOLEAN
    BY <1>23 DEF Crash
  <2> QED
    BY <1>23, <2>1, <2>2 DEF Crash, progress, archive, Steps
<1>24. CASE UNCHANGED edgeVars
  BY <1>24 DEF edgeVars, progress, target, archive, seen, bounds
<1> QED
  BY <1>1, <1>2, <1>3, <1>4, <1>5, <1>6, <1>7, <1>8, <1>9, <1>10, <1>11, <1>12, <1>13,
     <1>14, <1>15, <1>16, <1>17, <1>18, <1>19, <1>20, <1>21, <1>22, <1>23, <1>24
     DEF EdgeNext, Attempt, ResolverStep

\* The state of an input record, its target and its attempt stay within their types.
THEOREM TypeCorrect == EdgeSpec => []TypeOK
<1>1. EdgeInit => TypeOK
  BY InitType
<1>2. TypeOK /\ [EdgeNext]_edgeVars => TypeOK'
  BY NextType
<1> QED
  BY <1>1, <1>2, PTL DEF EdgeSpec

-----------------------------------------------------------------------------
(* The inductive invariant: where an attempt can be in each phase, what has
   been saved by then, and what the draft owes to the resolver.             *)

StepsOfPhase ==
    /\ step \in {"prepare", "savefiles"} => phase \in {"collecting", "files"}
    /\ step = "resolve" => phase = "files"
    /\ step \in {"reap", "freeze", "savememory"} => phase = "files_resolved"
    /\ step \in {"organize", "seal", "publish"} => phase = "memory"
    /\ step = "release" => phase = "ready"

SavedByPhase ==
    /\ frozen # None => phase \in {"files_resolved", "memory", "ready"}
    /\ phase \in {"memory", "ready"} \/ step = "savememory" => frozen # None
    /\ sealed # 0 => phase \in {"memory", "ready"}
    /\ phase = "ready" \/ step = "publish" => sealed # 0
    /\ step = "seal" => answer # 0

\* Until it is frozen the draft is what the resolver left; no process is alive
\* to change it when it is.
DraftAsTold ==
    /\ proc => frozen = None /\ step # "freeze"
    /\ frozen = None /\ ~lostDraft => (content = None /\ told = Blank) \/ content = told
    /\ DecisionsFrozen

InputInv == StepsOfPhase /\ SavedByPhase /\ DraftAsTold

LEMMA InitInput == EdgeInit => InputInv
BY DEF EdgeInit, InputInv, StepsOfPhase, SavedByPhase, DraftAsTold, DecisionsFrozen

LEMMA NextPhases ==
    TypeOK /\ StepsOfPhase /\ SavedByPhase /\ [EdgeNext]_edgeVars => StepsOfPhase' /\ SavedByPhase'
<1> SUFFICES ASSUME TypeOK, StepsOfPhase, SavedByPhase, [EdgeNext]_edgeVars
             PROVE  StepsOfPhase' /\ SavedByPhase'
  OBVIOUS
<1> USE DEF TypeOK, StepsOfPhase, SavedByPhase
<1>1. CASE Restart
  BY <1>1 DEF Restart, progress, target, archive, seen, bounds
<1>2. CASE Collect
  BY <1>2 DEF Collect, target, archive, seen, bounds
<1>3. CASE Resume
  BY <1>3 DEF Resume, progress, target, archive, seen, bounds, Phases
<1>4. CASE PrepareTarget
  BY <1>4 DEF PrepareTarget, progress, archive, seen, bounds
<1>5. CASE SaveFiles
  BY <1>5 DEF SaveFiles, target, archive, seen, bounds
<1>6. CASE SaveCall
  BY <1>6 DEF SaveCall, target, archive, seen, bounds
<1>7. CASE FinishFiles
  BY <1>7 DEF FinishFiles, Calling, target, archive, seen, bounds
<1>8. CASE Reap
  BY <1>8 DEF Reap, progress, target, archive, seen, bounds
<1>9. CASE FreezeFiles
  BY <1>9 DEF FreezeFiles, progress, target, seen, bounds
<1>10. CASE FreezeUnknown
  BY <1>10 DEF FreezeUnknown, progress, target, archive, seen, bounds
<1>11. CASE SaveMemoryPhase
  BY <1>11 DEF SaveMemoryPhase, target, archive, seen, bounds
<1>12. CASE KeepSealed
  BY <1>12 DEF KeepSealed, progress, target, archive, seen, bounds
<1>13. CASE OrganizeMemory
  BY <1>13 DEF OrganizeMemory, progress, target, archive, seen, bounds
<1>14. CASE SealMemory
  BY <1>14 DEF SealMemory, progress, target, seen, bounds
<1>15. CASE Publish
  BY <1>15 DEF Publish, target, archive, seen, bounds
<1>16. CASE ReadyInput
  BY <1>16 DEF ReadyInput, progress, archive, seen, bounds
<1>17. ASSUME NEW s \in Sources, NEW P \in SUBSET Paths, NEW replace \in BOOLEAN,
              Apply(s, P, replace)
       PROVE  StepsOfPhase' /\ SavedByPhase'
  BY <1>17 DEF Apply, Calling, progress, archive
<1>18. ASSUME NEW s \in Sources, Discard(s)
       PROVE  StepsOfPhase' /\ SavedByPhase'
  BY <1>18 DEF Discard, Calling, target, archive, seen, bounds
<1>19. ASSUME NEW p \in Paths, NEW background \in BOOLEAN, Edit(p, background)
       PROVE  StepsOfPhase' /\ SavedByPhase'
  BY <1>19 DEF Edit, Calling, progress, archive
<1>20. ASSUME NEW p \in Paths, BackgroundWrite(p)
       PROVE  StepsOfPhase' /\ SavedByPhase'
  BY <1>20 DEF BackgroundWrite, progress, archive, bounds
<1>21. CASE SaveCallFails
  BY <1>21 DEF SaveCallFails, progress, target, archive, seen
<1>22. CASE Fail
  BY <1>22 DEF Fail, progress, target, archive, seen
<1>23. CASE Crash
  BY <1>23 DEF Crash, progress, archive
<1>24. CASE UNCHANGED edgeVars
  BY <1>24 DEF edgeVars, progress, target, archive, seen, bounds
<1> QED
  BY <1>1, <1>2, <1>3, <1>4, <1>5, <1>6, <1>7, <1>8, <1>9, <1>10, <1>11, <1>12, <1>13,
     <1>14, <1>15, <1>16, <1>17, <1>18, <1>19, <1>20, <1>21, <1>22, <1>23, <1>24
     DEF EdgeNext, Attempt, ResolverStep

LEMMA NextDraft == TypeOK /\ InputInv /\ [EdgeNext]_edgeVars => DraftAsTold'
<1> SUFFICES ASSUME TypeOK, InputInv, [EdgeNext]_edgeVars PROVE DraftAsTold'
  OBVIOUS
<1> USE DEF TypeOK, InputInv, StepsOfPhase, SavedByPhase, DraftAsTold, DecisionsFrozen
<1>1. CASE Restart
  BY <1>1 DEF Restart, progress, target, archive, seen, bounds
<1>2. CASE Collect
  BY <1>2 DEF Collect, target, archive, seen, bounds
<1>3. CASE Resume
  BY <1>3 DEF Resume, progress, target, archive, seen, bounds, Phases
<1>4. CASE PrepareTarget
  <2>1. frozen' = None /\ told' = told /\ lostDraft' = lostDraft
    BY <1>4 DEF PrepareTarget, archive, seen
  <2>2. step' # "freeze"
    BY <1>4 DEF PrepareTarget
  <2>3. ~lostDraft => content' = told
    <3>1. content' = IF content = None THEN Blank ELSE content
      BY <1>4 DEF PrepareTarget
    <3>2. ~lostDraft => (content = None /\ told = Blank) \/ content = told
      BY <1>4 DEF PrepareTarget
    <3> QED  BY <3>1, <3>2, NoneAssumption
  <2> QED
    BY <2>1, <2>2, <2>3
<1>5. CASE SaveFiles
  BY <1>5 DEF SaveFiles, target, archive, seen, bounds
<1>6. CASE SaveCall
  BY <1>6 DEF SaveCall, target, archive, seen, bounds
<1>7. CASE FinishFiles
  BY <1>7 DEF FinishFiles, Calling, target, archive, seen, bounds
<1>8. CASE Reap
  BY <1>8 DEF Reap, progress, target, archive, seen, bounds
<1>9. CASE FreezeFiles
  BY <1>9 DEF FreezeFiles, progress, target, seen, bounds
<1>10. CASE FreezeUnknown
  BY <1>10 DEF FreezeUnknown, progress, target, archive, seen, bounds
<1>11. CASE SaveMemoryPhase
  BY <1>11 DEF SaveMemoryPhase, target, archive, seen, bounds
<1>12. CASE KeepSealed
  BY <1>12 DEF KeepSealed, progress, target, archive, seen, bounds
<1>13. CASE OrganizeMemory
  BY <1>13 DEF OrganizeMemory, progress, target, archive, seen, bounds
<1>14. CASE SealMemory
  BY <1>14 DEF SealMemory, progress, target, seen, bounds
<1>15. CASE Publish
  BY <1>15 DEF Publish, target, archive, seen, bounds
<1>16. CASE ReadyInput
  BY <1>16 DEF ReadyInput, progress, archive, seen, bounds
<1>17. ASSUME NEW s \in Sources, NEW P \in SUBSET Paths, NEW replace \in BOOLEAN,
              Apply(s, P, replace)
       PROVE  DraftAsTold'
  BY <1>17 DEF Apply, Calling, progress, archive
<1>18. ASSUME NEW s \in Sources, Discard(s)
       PROVE  DraftAsTold'
  BY <1>18 DEF Discard, Calling, target, archive, seen, bounds
<1>19. ASSUME NEW p \in Paths, NEW background \in BOOLEAN, Edit(p, background)
       PROVE  DraftAsTold'
  BY <1>19 DEF Edit, Calling, progress, archive
<1>20. ASSUME NEW p \in Paths, BackgroundWrite(p)
       PROVE  DraftAsTold'
  <2>1. frozen' = None /\ frozen = None
    BY <1>20 DEF BackgroundWrite, archive
  <2>2. step \notin AfterReap
    BY <1>20, <2>1 DEF BackgroundWrite, AfterReap
  <2>3. step' # "freeze"
    BY <1>20, <2>2 DEF BackgroundWrite, AfterReap
  <2>4. told' = content'
    BY <1>20, <2>2 DEF BackgroundWrite
  <2> QED
    BY <2>1, <2>3, <2>4
<1>21. CASE SaveCallFails
  BY <1>21 DEF SaveCallFails, progress, target, archive, seen
<1>22. CASE Fail
  <2>1. proc' => proc
    BY <1>22 DEF Fail
  <2>2. step' = "idle" /\ UNCHANGED <<frozen, content, told, lostDraft>>
    BY <1>22 DEF Fail, target, archive, seen
  <2> QED
    BY <2>1, <2>2
<1>23. CASE Crash
  <2>1. ~proc'
    BY <1>23 DEF Crash
  <2>2. UNCHANGED <<frozen, told>>
    BY <1>23 DEF Crash, archive
  <2>3. ~lostDraft' => ~lostDraft /\ (frozen = None => kept \/ told = Blank)
    BY <1>23 DEF Crash
  <2>4. content' = IF kept THEN content ELSE None
    BY <1>23 DEF Crash
  <2> QED
    BY <2>1, <2>2, <2>3, <2>4
<1>24. CASE UNCHANGED edgeVars
  BY <1>24 DEF edgeVars, progress, target, archive, seen, bounds
<1> QED
  BY <1>1, <1>2, <1>3, <1>4, <1>5, <1>6, <1>7, <1>8, <1>9, <1>10, <1>11, <1>12, <1>13,
     <1>14, <1>15, <1>16, <1>17, <1>18, <1>19, <1>20, <1>21, <1>22, <1>23, <1>24
     DEF EdgeNext, Attempt, ResolverStep

LEMMA NextInput == TypeOK /\ InputInv /\ [EdgeNext]_edgeVars => InputInv'
BY NextPhases, NextDraft DEF InputInv

LEMMA InputInvariant == EdgeSpec => [](TypeOK /\ InputInv)
<1>1. EdgeInit => TypeOK /\ InputInv
  BY InitType, InitInput
<1>2. TypeOK /\ InputInv /\ [EdgeNext]_edgeVars => TypeOK' /\ InputInv'
  BY NextType, NextInput
<1> QED
  BY <1>1, <1>2, PTL DEF EdgeSpec

\* A record is ready only when its files are frozen and its memory is sealed.
THEOREM ReadyPairCorrect == EdgeSpec => []ReadyPairExists
<1>1. InputInv => ReadyPairExists
  BY DEF InputInv, SavedByPhase, ReadyPairExists
<1> QED
  BY <1>1, InputInvariant, PTL

\* The frozen files are what the resolver left, unless a crash took the target.
THEOREM DecisionsCorrect == EdgeSpec => []DecisionsFrozen
<1>1. InputInv => DecisionsFrozen
  BY DEF InputInv, DraftAsTold
<1> QED
  BY <1>1, InputInvariant, PTL

\* Sealed memory is never organized again.
THEOREM OrganizedOnceCorrect == EdgeSpec => OrganizedOnce
<1>1. TypeOK /\ InputInv /\ [EdgeNext]_edgeVars => [sealed # 0 => asked' = asked]_edgeVars
  BY DEF EdgeNext, Attempt, ResolverStep, Restart, Collect, Resume, PrepareTarget,
     SaveFiles, SaveCall, FinishFiles, Reap, FreezeFiles, FreezeUnknown, SaveMemoryPhase,
     KeepSealed, OrganizeMemory, SealMemory, Publish, ReadyInput, Apply, Discard, Edit,
     BackgroundWrite, SaveCallFails, Fail, Crash
<1> QED
  BY <1>1, InputInvariant, PTL DEF EdgeSpec, OrganizedOnce

-----------------------------------------------------------------------------
(* EdgeInput implements FixedInput *)

ThePair == IF phase = "ready" THEN <<frozen, sealed>> ELSE NoPairYet

\* From ready on an attempt only releases the target.
LEMMA ReadyStays ==
    TypeOK /\ InputInv /\ phase = "ready" /\ [EdgeNext]_edgeVars
        => phase' = "ready" /\ frozen' = frozen /\ sealed' = sealed
BY DEF InputInv, StepsOfPhase, EdgeNext, Attempt, ResolverStep, Restart, Collect, Resume,
   PrepareTarget, SaveFiles, SaveCall, FinishFiles, Reap, FreezeFiles, FreezeUnknown,
   SaveMemoryPhase, KeepSealed, OrganizeMemory, SealMemory, Publish, ReadyInput, Apply,
   Discard, Edit, Calling, BackgroundWrite, SaveCallFails, Fail, Crash,
   edgeVars, progress, archive

LEMMA PublishStep ==
    TypeOK /\ InputInv /\ [EdgeNext]_edgeVars => [Fixed!Publish]_ThePair
<1> SUFFICES ASSUME TypeOK, InputInv, [EdgeNext]_edgeVars
             PROVE  Fixed!Publish \/ ThePair' = ThePair
  BY DEF ThePair
<1>1. CASE phase = "ready"
  <2>1. phase' = "ready" /\ frozen' = frozen /\ sealed' = sealed
    BY <1>1, ReadyStays
  <2> QED
    BY <1>1, <2>1 DEF ThePair
<1>2. CASE phase # "ready" /\ phase' # "ready"
  BY <1>2 DEF ThePair, NoPairYet
<1>3. CASE phase # "ready" /\ phase' = "ready"
  <2>1. InputInv' /\ TypeOK'
    BY NextInput, NextType
  <2>2. frozen' \in Content /\ sealed' \in Nat \ {0}
    BY <1>3, <2>1 DEF InputInv, SavedByPhase, TypeOK
  <2> QED
    BY <1>3, <2>2 DEF ThePair, Fixed!Publish, Fixed!Pairs
<1> QED
  BY <1>1, <1>2, <1>3

\* The input of a role is one pair, published once and never replaced.
THEOREM PublishesOnePairCorrect == EdgeSpec => PublishesOnePair
<1>1. EdgeInit => Fixed!Init
  BY DEF EdgeInit, Fixed!Init
<1>2. TypeOK /\ InputInv /\ [EdgeNext]_edgeVars => [Fixed!Publish]_ThePair
  BY PublishStep
<1> QED
  BY <1>1, <1>2, InputInvariant, PTL DEF EdgeSpec, PublishesOnePair, Fixed!Spec, ThePair

-----------------------------------------------------------------------------
(* InputMemory *)

-----------------------------------------------------------------------------
(* Numbers *)

\* A set of numbers that is not empty has a least one.
LEMMA Least ==
    ASSUME NEW T \in SUBSET Nat, T # {}
    PROVE  \E x \in T : \A y \in T : x <= y
<1> DEFINE less == OpToRel(<, Nat)
<1>1. PICK x \in T : \A y \in T : ~(<<y, x>> \in less)
  BY NatLessThanWellFounded, WFMin
<1>2. ASSUME NEW y \in T, y < x PROVE FALSE
  <2>1. <<y, x>> \in less
    BY <1>2 DEF OpToRel
  <2> QED  BY <2>1, <1>1
<1> HIDE DEF less
<1>3. \A y \in T : x <= y
  BY <1>2
<1> QED  BY <1>3

\* Min finds it.
LEMMA MinIsLeast ==
    ASSUME NEW T \in SUBSET Nat, T # {}
    PROVE  Min(T) \in T /\ \A y \in T : Min(T) <= y
BY Least DEF Min

\* A set of numbers up to n that is not empty has a greatest one.
LEMMA Greatest ==
    ASSUME NEW n \in Nat, NEW T \in SUBSET (1 .. n), T # {}
    PROVE  \E x \in T : \A y \in T : y <= x
<1> DEFINE U == {m \in Nat : \E t \in T : m = n - t}
<1>1. \A t \in T : t \in Nat /\ n - t \in Nat
  OBVIOUS
<1>2. PICK u \in U : \A v \in U : u <= v
  <2>1. U \in SUBSET Nat /\ U # {}
    BY <1>1
  <2> QED  BY <2>1, Least
<1>3. PICK x \in T : u = n - x
  BY <1>2
<1>4. ASSUME NEW y \in T PROVE y <= x
  <2>1. n - y \in U
    BY <1>1
  <2>2. n - x <= n - y /\ x \in Nat /\ y \in Nat
    BY <1>2, <1>3, <1>1, <2>1
  <2> QED  BY <2>2
<1> QED  BY <1>4

-----------------------------------------------------------------------------
(* Identities *)

\* Two variants of one name are the same only if the names are.
LEMMA VariantsDiffer ==
    ASSUME NEW x, NEW y, NEW k, NEW l,
           IsSequence(x), IsSequence(y), Append(x, k) = Append(y, l)
    PROVE  x = y /\ k = l
<1> DEFINE S == {x[i] : i \in 1 .. Len(x)} \union {y[i] : i \in 1 .. Len(y)} \union {k, l}
<1>1. x \in Seq(S) /\ y \in Seq(S) /\ k \in S /\ l \in S
  <2>1. x \in [1 .. Len(x) -> S] /\ Len(x) \in Nat
    BY DEF IsSequence
  <2>2. y \in [1 .. Len(y) -> S] /\ Len(y) \in Nat
    BY DEF IsSequence
  <2>3. k \in S /\ l \in S
    OBVIOUS
  <2> HIDE DEF S
  <2> QED  BY <2>1, <2>2, <2>3
<1> HIDE DEF S
<1>2. Len(Append(x, k)) = Len(x) + 1 /\ Len(Append(y, l)) = Len(y) + 1
  BY <1>1
<1>3. Len(x) = Len(y) /\ Len(x) \in Nat
  BY <1>2, <1>1
<1>4. k = l
  BY <1>1, <1>3
<1>5. \A i \in 1 .. Len(x) : x[i] = Append(x, k)[i] /\ y[i] = Append(y, l)[i]
  BY <1>1, <1>3
<1>6. \A i \in 1 .. Len(x) : x[i] = y[i]
  BY <1>5
<1>7. x = y
  BY <1>1, <1>3, <1>6
<1> QED  BY <1>4, <1>7

\* Among the variants there is one that is free and has as many free ones up to it
\* as asked for.
LEMMA VariantExists ==
    ASSUME NEW id, IsSequence(id), NEW used, IsFiniteSet(used), NEW nth \in Nat, nth > 0
    PROVE  \E k \in 1 .. nth + Cardinality(used) :
              /\ Append(id, k) \notin used
              /\ Cardinality({j \in 1 .. k : Append(id, j) \notin used}) = nth
<1> DEFINE Free(k) == {j \in 1 .. k : Append(id, j) \notin used}
           size == nth + Cardinality(used)
           Enough == {k \in 1 .. size : Cardinality(Free(k)) >= nth}
<1>0. Cardinality(used) \in Nat /\ size \in Nat /\ size > 0
  BY FS_CardinalityType
<1>1. \A k \in Nat : IsFiniteSet(Free(k)) /\ Cardinality(Free(k)) \in Nat
  <2> TAKE k \in Nat
  <2>1. IsFiniteSet(1 .. k)
    BY FS_Interval
  <2>2. Free(k) \in SUBSET (1 .. k)
    OBVIOUS
  <2> HIDE DEF Free
  <2>3. IsFiniteSet(Free(k))
    BY <2>1, <2>2, FS_Subset
  <2> QED  BY <2>3, FS_CardinalityType
<1>2. Cardinality(Free(size)) >= nth
  <2> DEFINE Bad == {j \in 1 .. size : Append(id, j) \in used}
             f == [j \in Bad |-> Append(id, j)]
  <2>1. f \in Injection(Bad, used)
    <3>1. f \in [Bad -> used]
      OBVIOUS
    <3>2. ASSUME NEW a \in Bad, NEW b \in Bad, f[a] = f[b] PROVE a = b
      BY <3>2, VariantsDiffer
    <3> QED  BY <3>1, <3>2 DEF Injection, IsInjective
  <2>2. IsFiniteSet(Bad) /\ Cardinality(Bad) <= Cardinality(used)
    <3> HIDE DEF f
    <3> QED  BY <2>1, FS_Injection
  <2>3. IsFiniteSet(1 .. size) /\ Cardinality(1 .. size) = size
    <3> HIDE DEF size
    <3> QED  BY <1>0, FS_Interval
  <2>4. (1 .. size) \ Bad = Free(size)
    OBVIOUS
  <2>5. (1 .. size) \cap Bad = Bad
    OBVIOUS
  <2> HIDE DEF Bad, Free
  <2>6. Cardinality(Free(size)) = Cardinality(1 .. size) - Cardinality(Bad)
    <3> HIDE DEF size
    <3> QED  BY <2>3, <2>4, <2>5, FS_Difference, ZenonT(60)
  <2>7. Cardinality(Bad) \in Nat
    BY <2>2, FS_CardinalityType
  <2> QED  BY <2>2, <2>3, <2>6, <2>7, <1>0
<1>3. Enough \in SUBSET Nat /\ size \in Enough
  BY <1>0, <1>2
<1>4. PICK k \in Enough : \A l \in Enough : k <= l
  BY <1>3, Least
<1>5. k \in 1 .. size /\ Cardinality(Free(k)) >= nth /\ k \in Nat /\ k - 1 \in Nat
  BY <1>0
<1>6. Cardinality(Free(k - 1)) < nth
  <2>1. CASE k = 1
    <3>1. Free(k - 1) = {}
      BY <2>1
    <3> HIDE DEF Free
    <3> QED  BY <3>1, FS_EmptySet
  <2>2. CASE k # 1
    <3>1. k - 1 \in 1 .. size
      BY <2>2, <1>5, <1>0
    <3>2. k - 1 \notin Enough
      BY <1>4, <1>5
    <3>3. Cardinality(Free(k - 1)) \in Nat
      BY <1>1, <1>5
    <3> HIDE DEF Free
    <3> QED  BY <3>1, <3>2, <3>3
  <2> QED  BY <2>1, <2>2
<1>7. Free(k) = IF Append(id, k) \in used THEN Free(k - 1) ELSE Free(k - 1) \union {k}
  BY <1>5
<1>8. k \notin Free(k - 1)
  BY <1>5
<1>9. Append(id, k) \notin used
  <2> SUFFICES ASSUME Append(id, k) \in used PROVE FALSE
    OBVIOUS
  <2>1. Free(k) = Free(k - 1)
    BY <1>7
  <2>2. Cardinality(Free(k - 1)) \in Nat
    BY <1>1, <1>5
  <2> HIDE DEF Free
  <2> QED  BY <2>1, <2>2, <1>5, <1>6
<1>10. Cardinality(Free(k)) = Cardinality(Free(k - 1)) + 1
  <2>1. Free(k) = Free(k - 1) \union {k}
    BY <1>7, <1>9
  <2>2. IsFiniteSet(Free(k - 1))
    BY <1>1, <1>5
  <2> HIDE DEF Free
  <2> QED  BY <2>1, <2>2, <1>8, FS_AddElement
<1>11. Cardinality(Free(k)) = nth
  <2>1. Cardinality(Free(k - 1)) \in Nat
    BY <1>1, <1>5
  <2> HIDE DEF Free
  <2> QED  BY <2>1, <1>5, <1>6, <1>10
<1> HIDE DEF Enough
<1> QED  BY <1>5, <1>9, <1>11

FreeUpTo(id, k, used) == {j \in 1 .. k : Append(id, j) \notin used}

\* inputVariantID finds it: the identity is new, and tells whose variant it is and
\* which one.
LEMMA VariantIs ==
    ASSUME NEW id, IsSequence(id), NEW used, IsFiniteSet(used), NEW nth \in Nat, nth > 0
    PROVE  \E k \in Nat : /\ VariantID(id, nth, used) = Append(id, k)
                          /\ Append(id, k) \notin used
                          /\ Cardinality(FreeUpTo(id, k, used)) = nth
<1> DEFINE Good(v) == /\ v \notin used
                      /\ Cardinality({k \in 1 .. v[Len(v)] : Append(id, k) \notin used}) = nth
           All == {Append(id, k) : k \in 1 .. nth + Cardinality(used)}
<1>1. \A k : LET v == Append(id, k) IN v[Len(v)] = k
  <2> TAKE k
  <2> DEFINE S == {id[i] : i \in 1 .. Len(id)} \union {k}
  <2>1. id \in [1 .. Len(id) -> S] /\ Len(id) \in Nat /\ k \in S
    BY DEF IsSequence
  <2> HIDE DEF S
  <2>2. id \in Seq(S)
    BY <2>1
  <2> QED  BY <2>1, <2>2
<1>2. PICK k \in 1 .. nth + Cardinality(used) :
         /\ Append(id, k) \notin used
         /\ Cardinality({j \in 1 .. k : Append(id, j) \notin used}) = nth
  BY VariantExists
<1>3. Append(id, k) \in All /\ Good(Append(id, k))
  BY <1>1, <1>2
<1>4. VariantID(id, nth, used) \in All /\ Good(VariantID(id, nth, used))
  <2>1. VariantID(id, nth, used) = CHOOSE v \in All : Good(v)
    BY DEF VariantID
  <2> HIDE DEF All, Good
  <2> QED  BY <2>1, <1>3
<1>5. PICK l \in 1 .. nth + Cardinality(used) : VariantID(id, nth, used) = Append(id, l)
  BY <1>4
<1>6. l \in Nat
  BY FS_CardinalityType
<1>7. Append(id, l) \notin used /\ Cardinality(FreeUpTo(id, l, used)) = nth
  BY <1>1, <1>4, <1>5 DEF FreeUpTo
<1> QED  BY <1>5, <1>6, <1>7

-----------------------------------------------------------------------------
(* Versions: fs are the tables of the sources *)

Family(fs) ==
    /\ \E n \in Nat : n > 0 /\ DOMAIN fs = 1 .. n
    /\ \A i \in DOMAIN fs : IsTable(fs[i])

\* The set of a finite set's images is finite.
LEMMA FiniteImage ==
    ASSUME NEW f, IsFiniteSet(DOMAIN f)
    PROVE  IsFiniteSet({f[x] : x \in DOMAIN f})
<1> DEFINE T == {f[x] : x \in DOMAIN f}
           g == [x \in DOMAIN f |-> f[x]]
<1>1. g \in Surjection(DOMAIN f, T)
  <2>1. g \in [DOMAIN f -> T]
    OBVIOUS
  <2>2. \A t \in T : \E x \in DOMAIN f : g[x] = t
    OBVIOUS
  <2> HIDE DEF g, T
  <2> QED  BY <2>1, <2>2 DEF Surjection
<1> HIDE DEF g, T
<1>2. IsFiniteSet(T)
  BY <1>1, FS_Surjection
<1> QED  BY <1>2 DEF T

\* All identities of all sources together are finitely many.
LEMMA UsedFinite ==
    ASSUME NEW fs, Family(fs)
    PROVE  IsFiniteSet(Used(fs))
<1> DEFINE D == [j \in DOMAIN fs |-> DOMAIN fs[j]]
           T == {D[j] : j \in DOMAIN D}
<1>1. IsFiniteSet(DOMAIN D)
  <2>1. PICK n \in Nat : DOMAIN fs = 1 .. n
    BY DEF Family
  <2> QED  BY <2>1, FS_Interval
<1>2. IsFiniteSet(T)
  <2> HIDE DEF D
  <2> QED  BY <1>1, FiniteImage
<1>3. \A t \in T : IsFiniteSet(t)
  BY DEF Family, IsTable
<1>4. Used(fs) = UNION T
  BY DEF Used
<1> HIDE DEF T
<1> QED  BY <1>2, <1>3, <1>4, FS_UNION

First(fs, i, x) == Min(Holders(fs, x, fs[i][x]))

\* The first source with a version has it, and the sources before it have others.
LEMMA FirstHolds ==
    ASSUME NEW fs, Family(fs), NEW i \in DOMAIN fs, NEW x \in DOMAIN fs[i]
    PROVE  LET h == First(fs, i, x)
           IN  /\ h \in DOMAIN fs /\ h \in Nat /\ h > 0 /\ i \in Nat /\ h <= i
               /\ x \in DOMAIN fs[h] /\ fs[h][x] = fs[i][x]
               /\ \A j \in 1 .. h - 1 :
                     j \in DOMAIN fs /\ (x \in DOMAIN fs[j] => fs[j][x] # fs[i][x])
<1> DEFINE H == Holders(fs, x, fs[i][x])
<1>1. PICK n \in Nat : DOMAIN fs = 1 .. n
  BY DEF Family
<1>2. i \in H /\ H \subseteq DOMAIN fs /\ H \in SUBSET Nat
  BY <1>1 DEF Holders
<1>3. \A j \in H : x \in DOMAIN fs[j] /\ fs[j][x] = fs[i][x]
  BY DEF Holders
<1>4. \A j \in DOMAIN fs : x \in DOMAIN fs[j] /\ fs[j][x] = fs[i][x] => j \in H
  BY DEF Holders
<1> HIDE DEF H
<1>5. Min(H) \in H /\ \A j \in H : Min(H) <= j
  BY <1>2, MinIsLeast
<1>6. First(fs, i, x) = Min(H)
  BY DEF First, H
<1> QED  BY <1>1, <1>2, <1>3, <1>4, <1>5, <1>6

\* Before, written with First.
LEMMA BeforeIs ==
    ASSUME NEW fs, Family(fs), NEW i \in DOMAIN fs, NEW x \in DOMAIN fs[i]
    PROVE  /\ \A v : v \in Before(fs, i, x) <=>
                        \E j \in 1 .. First(fs, i, x) - 1 : x \in DOMAIN fs[j] /\ fs[j][x] = v
           /\ IsFiniteSet(Before(fs, i, x))
           /\ fs[i][x] \notin Before(fs, i, x)
<1>1. \A v : v \in Before(fs, i, x) <=>
                \E j \in 1 .. First(fs, i, x) - 1 : x \in DOMAIN fs[j] /\ fs[j][x] = v
  BY DEF Before, First
<1>2. IsFiniteSet(Before(fs, i, x))
  <2> DEFINE J == {j \in 1 .. First(fs, i, x) - 1 : x \in DOMAIN fs[j]}
             g == [j \in J |-> fs[j][x]]
  <2>1. J \in SUBSET (1 .. First(fs, i, x) - 1)
    OBVIOUS
  <2>2. First(fs, i, x) \in Nat
    BY FirstHolds
  <2>3. IsFiniteSet(1 .. First(fs, i, x) - 1)
    BY <2>2, FS_Interval
  <2>4. DOMAIN g = J
    OBVIOUS
  <2>5. Before(fs, i, x) = {g[j] : j \in DOMAIN g}
    BY DEF Before, First
  <2> HIDE DEF g
  <2>6. IsFiniteSet(J)
    <3> HIDE DEF J
    <3> QED  BY <2>1, <2>3, FS_Subset
  <2> HIDE DEF J
  <2> QED  BY <2>4, <2>5, <2>6, FiniteImage
<1>3. fs[i][x] \notin Before(fs, i, x)
  <2>1. \A j \in 1 .. First(fs, i, x) - 1 : x \in DOMAIN fs[j] => fs[j][x] # fs[i][x]
    BY FirstHolds
  <2> QED  BY <1>1, <2>1
<1> QED  BY <1>1, <1>2, <1>3

\* A later first holder has more versions before it.
LEMMA LaterHasMore ==
    ASSUME NEW fs, Family(fs), NEW i \in DOMAIN fs, NEW k \in DOMAIN fs,
           NEW x \in DOMAIN fs[i], x \in DOMAIN fs[k], First(fs, i, x) < First(fs, k, x)
    PROVE  Cardinality(Before(fs, i, x)) # Cardinality(Before(fs, k, x))
<1> DEFINE a == First(fs, i, x)
           b == First(fs, k, x)
<1>1. a \in Nat /\ a > 0 /\ b \in Nat /\ x \in DOMAIN fs[a] /\ fs[a][x] = fs[i][x]
  BY FirstHolds
<1>2. a < b
  OBVIOUS
<1>3. \A v : v \in Before(fs, i, x) <=> \E j \in 1 .. a - 1 : x \in DOMAIN fs[j] /\ fs[j][x] = v
  BY BeforeIs
<1>4. \A v : v \in Before(fs, k, x) <=> \E j \in 1 .. b - 1 : x \in DOMAIN fs[j] /\ fs[j][x] = v
  BY BeforeIs
<1>5. IsFiniteSet(Before(fs, k, x)) /\ fs[i][x] \notin Before(fs, i, x)
  BY BeforeIs
<1> HIDE DEF a, b
<1>6. Before(fs, i, x) \in SUBSET Before(fs, k, x)
  <2> SUFFICES ASSUME NEW v \in Before(fs, i, x) PROVE v \in Before(fs, k, x)
    OBVIOUS
  <2>1. PICK j \in 1 .. a - 1 : x \in DOMAIN fs[j] /\ fs[j][x] = v
    BY <1>3
  <2>2. j \in 1 .. b - 1
    BY <1>1, <1>2
  <2> QED  BY <2>1, <2>2, <1>4
<1>7. fs[i][x] \in Before(fs, k, x)
  <2>1. a \in 1 .. b - 1
    BY <1>1, <1>2
  <2> QED  BY <2>1, <1>1, <1>4
<1> QED  BY <1>5, <1>6, <1>7, FS_Subset

\* How many versions are before one tells which one it is.
LEMMA CountTells ==
    ASSUME NEW fs, Family(fs), NEW i \in DOMAIN fs, NEW k \in DOMAIN fs,
           NEW x \in DOMAIN fs[i], x \in DOMAIN fs[k],
           Cardinality(Before(fs, i, x)) = Cardinality(Before(fs, k, x))
    PROVE  fs[i][x] = fs[k][x]
<1>1. First(fs, i, x) \in Nat /\ First(fs, k, x) \in Nat
  BY FirstHolds
<1>2. ~(First(fs, i, x) < First(fs, k, x)) /\ ~(First(fs, k, x) < First(fs, i, x))
  BY LaterHasMore
<1>3. First(fs, i, x) = First(fs, k, x)
  BY <1>1, <1>2
<1>4. fs[First(fs, i, x)][x] = fs[i][x] /\ fs[First(fs, k, x)][x] = fs[k][x]
  BY FirstHolds
<1> QED  BY <1>3, <1>4

\* An image is the name itself, for the first version, or a new variant of it that
\* tells which version it is.
LEMMA ImageIs ==
    ASSUME NEW fs, Family(fs), NEW i \in DOMAIN fs, NEW x \in DOMAIN fs[i]
    PROVE  \/ Image(fs, i, x) = x /\ x \in Used(fs) /\ Cardinality(Before(fs, i, x)) = 0
           \/ \E k \in Nat :
                 /\ Image(fs, i, x) = Append(x, k) /\ Append(x, k) \notin Used(fs)
                 /\ Cardinality(FreeUpTo(x, k, Used(fs)))
                       = Cardinality(Before(fs, i, x))
<1>1. IsFiniteSet(Before(fs, i, x)) /\ IsFiniteSet(Used(fs))
  BY BeforeIs, UsedFinite
<1>2. Cardinality(Before(fs, i, x)) \in Nat
       /\ (Cardinality(Before(fs, i, x)) = 0 <=> Before(fs, i, x) = {})
  BY <1>1, FS_CardinalityType, FS_EmptySet
<1>3. x \in Used(fs)
  BY DEF Used
<1>4. IsSequence(x)
  BY DEF Family, IsTable, IsId
<1>5. CASE Before(fs, i, x) = {}
  BY <1>2, <1>3, <1>5 DEF Image
<1>6. CASE Before(fs, i, x) # {}
  <2> DEFINE many == Cardinality(Before(fs, i, x))
  <2>1. many \in Nat /\ many > 0
    BY <1>2, <1>6
  <2>2. Image(fs, i, x) = VariantID(x, many, Used(fs))
    BY <1>6 DEF Image
  <2> HIDE DEF many
  <2>3. \E k \in Nat :
           /\ VariantID(x, many, Used(fs)) = Append(x, k) /\ Append(x, k) \notin Used(fs)
           /\ Cardinality(FreeUpTo(x, k, Used(fs))) = many
    <3>1. many \in Nat
      BY <2>1
    <3>2. many > 0
      BY <2>1
    <3>3. IsFiniteSet(Used(fs))
      BY <1>1
    <3> QED  BY <3>1, <3>2, <3>3, <1>4, VariantIs
  <2> QED  BY <2>2, <2>3 DEF many
<1> QED  BY <1>5, <1>6

\* context/input.go:66, inputVariantID: whatever names and versions the sources have, names
\* that look like variants of others among them, two different nodes, or two versions of
\* one, never get the same identity in the draft.
THEOREM ImagesDiffer ==
    ASSUME NEW fs, Family(fs), NEW i \in DOMAIN fs, NEW k \in DOMAIN fs,
           NEW x \in DOMAIN fs[i], NEW y \in DOMAIN fs[k],
           Image(fs, i, x) = Image(fs, k, y)
    PROVE  x = y /\ fs[i][x] = fs[k][y]
<1>1. IsSequence(x) /\ IsSequence(y) /\ x \in Used(fs) /\ y \in Used(fs)
  BY DEF Family, IsTable, IsId, Used
<1>2. x = y /\ Cardinality(Before(fs, i, x)) = Cardinality(Before(fs, k, y))
  <2>1. CASE Image(fs, i, x) = x /\ Cardinality(Before(fs, i, x)) = 0
    <3>1. Image(fs, k, y) \in Used(fs)
      BY <2>1, <1>1
    <3>2. Image(fs, k, y) = y /\ Cardinality(Before(fs, k, y)) = 0
      BY <3>1, ImageIs
    <3> QED  BY <2>1, <3>2
  <2>2. ASSUME NEW m \in Nat, Image(fs, i, x) = Append(x, m), Append(x, m) \notin Used(fs),
               Cardinality(FreeUpTo(x, m, Used(fs)))
                  = Cardinality(Before(fs, i, x))
        PROVE  x = y /\ Cardinality(Before(fs, i, x)) = Cardinality(Before(fs, k, y))
    <3>1. Image(fs, k, y) \notin Used(fs)
      BY <2>2
    <3>2. PICK l \in Nat : /\ Image(fs, k, y) = Append(y, l)
                           /\ Cardinality(FreeUpTo(y, l, Used(fs)))
                                 = Cardinality(Before(fs, k, y))
      BY <3>1, <1>1, ImageIs
    <3>3. x = y /\ m = l
      BY <2>2, <3>2, <1>1, VariantsDiffer
    <3> QED  BY <2>2, <3>2, <3>3
  <2> QED  BY <2>1, <2>2, ImageIs
<1> QED  BY <1>2, CountTells

\* The same version gets the same identity from every source.
LEMMA ImagesAgree ==
    ASSUME NEW fs, NEW i, NEW k, NEW x, fs[i][x] = fs[k][x]
    PROVE  Image(fs, i, x) = Image(fs, k, x)
<1>1. Before(fs, i, x) = Before(fs, k, x)
  BY DEF Before
<1> QED  BY <1>1 DEF Image

\* The first source keeps its identities, and with them what all sources agree on.
LEMMA FirstKeeps ==
    ASSUME NEW fs, Family(fs), NEW x \in DOMAIN fs[1]
    PROVE  1 \in DOMAIN fs /\ Image(fs, 1, x) = x
<1>1. 1 \in DOMAIN fs
  BY DEF Family
<1>2. First(fs, 1, x) \in Nat /\ First(fs, 1, x) > 0 /\ First(fs, 1, x) <= 1
  BY <1>1, FirstHolds
<1>3. First(fs, 1, x) = 1
  BY <1>2
<1>4. Before(fs, 1, x) = {}
  BY <1>1, <1>3, BeforeIs
<1> QED  BY <1>1, <1>4 DEF Image

\* No image is the empty identity, and only its own name maps an image to itself.
LEMMA ImageOfUsed ==
    ASSUME NEW fs, Family(fs), NEW i \in DOMAIN fs, NEW x \in DOMAIN fs[i],
           Image(fs, i, x) \in Used(fs)
    PROVE  Image(fs, i, x) = x
BY ImageIs

-----------------------------------------------------------------------------
(* The draft of ss *)

\* There are one to three sources, of well-formed graphs that hold together.
LEMMA SourcesAre ==
    ASSUME NEW ss \in Inputs
    PROVE  /\ \E n \in 1 .. 3 : DOMAIN ss = 1 .. n
           /\ 1 \in DOMAIN ss
           /\ \A i \in DOMAIN ss : IsGraph(ss[i]) /\ Valid(ss[i])
<1>1. IsSequence(ss) /\ Len(ss) \in 1 .. 3 /\ \A i \in DOMAIN ss : IsGraph(ss[i]) /\ Valid(ss[i])
  BY InputAssumption
<1>2. DOMAIN ss = 1 .. Len(ss)
  BY <1>1 DEF IsSequence
<1> QED  BY <1>1, <1>2

\* Their nodes, and their subgraphs, are tables as above.
LEMMA Families ==
    ASSUME NEW ss \in Inputs
    PROVE  /\ Family(Nodes(ss)) /\ DOMAIN Nodes(ss) = DOMAIN ss
           /\ Family(Subs(ss)) /\ DOMAIN Subs(ss) = DOMAIN ss
           /\ \A i \in DOMAIN ss : Nodes(ss)[i] = ss[i].nodes /\ Subs(ss)[i] = ss[i].subs
<1>1. \A i \in DOMAIN ss : IsTable(ss[i].nodes) /\ IsTable(ss[i].subs)
  BY SourcesAre DEF IsGraph
<1>2. \E n \in Nat : n > 0 /\ DOMAIN ss = 1 .. n
  <2>1. PICK n \in 1 .. 3 : DOMAIN ss = 1 .. n
    BY SourcesAre
  <2>2. n \in Nat /\ n > 0
    OBVIOUS
  <2> QED  BY <2>1, <2>2
<1> QED  BY <1>1, <1>2 DEF Family, Nodes, Subs

\* What is common is in every source, the same, and keeps its identity.
LEMMA CommonIs ==
    ASSUME NEW ss \in Inputs
    PROVE  /\ \A x \in DOMAIN Common(ss).nodes : \A i \in DOMAIN ss :
                 /\ x \in DOMAIN ss[i].nodes /\ ss[i].nodes[x] = Common(ss).nodes[x]
                 /\ Image(Nodes(ss), i, x) = x
           /\ \A s \in DOMAIN Common(ss).subs : \A i \in DOMAIN ss :
                 /\ s \in DOMAIN ss[i].subs /\ ss[i].subs[s] = Common(ss).subs[s]
                 /\ Image(Subs(ss), i, s) = s
           /\ \A i \in DOMAIN ss : Common(ss).edges \subseteq ss[i].edges
<1> DEFINE N == Nodes(ss)
           S == Subs(ss)
<1>1. /\ Family(N) /\ DOMAIN N = DOMAIN ss /\ Family(S) /\ DOMAIN S = DOMAIN ss
      /\ \A i \in DOMAIN ss : N[i] = ss[i].nodes /\ S[i] = ss[i].subs
      /\ 1 \in DOMAIN ss
  BY Families, SourcesAre
<1> HIDE DEF N, S
<1>2. \A x \in DOMAIN Shared(N) : \A i \in DOMAIN ss :
         x \in DOMAIN N[i] /\ N[i][x] = Shared(N)[x] /\ N[i][x] = N[1][x] /\ x \in DOMAIN N[1]
  BY <1>1 DEF Shared, Only
<1>3. \A x \in DOMAIN Shared(S) : \A i \in DOMAIN ss :
         x \in DOMAIN S[i] /\ S[i][x] = Shared(S)[x] /\ S[i][x] = S[1][x] /\ x \in DOMAIN S[1]
  BY <1>1 DEF Shared, Only
<1>4. \A x \in DOMAIN Shared(N) : \A i \in DOMAIN ss : Image(N, i, x) = x
  <2> SUFFICES ASSUME NEW x \in DOMAIN Shared(N), NEW i \in DOMAIN ss
               PROVE  Image(N, i, x) = x
    OBVIOUS
  <2>1. N[i][x] = N[1][x] /\ x \in DOMAIN N[1]
    BY <1>2
  <2>2. Image(N, i, x) = Image(N, 1, x)
    BY <2>1, ImagesAgree
  <2>3. Image(N, 1, x) = x
    BY <2>1, <1>1, FirstKeeps
  <2> QED  BY <2>2, <2>3
<1>5. \A x \in DOMAIN Shared(S) : \A i \in DOMAIN ss : Image(S, i, x) = x
  <2> SUFFICES ASSUME NEW x \in DOMAIN Shared(S), NEW i \in DOMAIN ss
               PROVE  Image(S, i, x) = x
    OBVIOUS
  <2>1. S[i][x] = S[1][x] /\ x \in DOMAIN S[1]
    BY <1>3
  <2>2. Image(S, i, x) = Image(S, 1, x)
    BY <2>1, ImagesAgree
  <2>3. Image(S, 1, x) = x
    BY <2>1, <1>1, FirstKeeps
  <2> QED  BY <2>2, <2>3
<1>6. /\ Common(ss).nodes = Shared(N) /\ Common(ss).subs = Shared(S)
      /\ \A i \in DOMAIN ss : Common(ss).edges \subseteq ss[i].edges
  BY DEF Common, N, S
<1>7. \A x \in DOMAIN Common(ss).nodes : \A i \in DOMAIN ss :
         /\ x \in DOMAIN ss[i].nodes /\ ss[i].nodes[x] = Common(ss).nodes[x]
         /\ Image(N, i, x) = x
  BY <1>1, <1>2, <1>4, <1>6
<1>8. \A s \in DOMAIN Common(ss).subs : \A i \in DOMAIN ss :
         /\ s \in DOMAIN ss[i].subs /\ ss[i].subs[s] = Common(ss).subs[s]
         /\ Image(S, i, s) = s
  BY <1>1, <1>3, <1>5, <1>6
<1> QED  BY <1>6, <1>7, <1>8 DEF N, S

\* Images in the draft: of different versions they are different.
LEMMA NodeImagesDiffer ==
    ASSUME NEW ss \in Inputs, NEW i \in DOMAIN ss, NEW k \in DOMAIN ss,
           NEW x \in DOMAIN ss[i].nodes, NEW y \in DOMAIN ss[k].nodes,
           Image(Nodes(ss), i, x) = Image(Nodes(ss), k, y)
    PROVE  x = y /\ ss[i].nodes[x] = ss[k].nodes[y]
<1> DEFINE N == Nodes(ss)
<1>1. /\ Family(N) /\ i \in DOMAIN N /\ k \in DOMAIN N
      /\ N[i] = ss[i].nodes /\ N[k] = ss[k].nodes
      /\ Image(N, i, x) = Image(N, k, y)
  BY Families
<1> HIDE DEF N
<1>2. x \in DOMAIN N[i] /\ y \in DOMAIN N[k]
  BY <1>1
<1>3. x = y /\ N[i][x] = N[k][y]
  BY <1>1, <1>2, ImagesDiffer
<1> QED  BY <1>1, <1>3

\* The same of subgraphs.
LEMMA SubImagesDiffer ==
    ASSUME NEW ss \in Inputs, NEW i \in DOMAIN ss, NEW k \in DOMAIN ss,
           NEW x \in DOMAIN ss[i].subs, NEW y \in DOMAIN ss[k].subs,
           Image(Subs(ss), i, x) = Image(Subs(ss), k, y)
    PROVE  x = y /\ ss[i].subs[x] = ss[k].subs[y]
<1> DEFINE N == Subs(ss)
<1>1. /\ Family(N) /\ i \in DOMAIN N /\ k \in DOMAIN N
      /\ N[i] = ss[i].subs /\ N[k] = ss[k].subs
      /\ Image(N, i, x) = Image(N, k, y)
  BY Families
<1> HIDE DEF N
<1>2. x \in DOMAIN N[i] /\ y \in DOMAIN N[k]
  BY <1>1
<1>3. x = y /\ N[i][x] = N[k][y]
  BY <1>1, <1>2, ImagesDiffer
<1> QED  BY <1>1, <1>3

\* What a reference of a source becomes.
LEMMA MappedIs ==
    ASSUME NEW ss \in Inputs, NEW i \in DOMAIN ss
    PROVE  /\ \A x \in DOMAIN ss[i].nodes : Mapped(Nodes(ss), i, x) = Image(Nodes(ss), i, x)
           /\ \A x \in DOMAIN ss[i].subs : Mapped(Subs(ss), i, x) = Image(Subs(ss), i, x)
           /\ NoId \notin DOMAIN ss[i].nodes /\ Mapped(Nodes(ss), i, NoId) = NoId
<1>1. Nodes(ss)[i] = ss[i].nodes /\ Subs(ss)[i] = ss[i].subs
  BY Families
<1>2. NoId \notin DOMAIN ss[i].nodes
  BY SourcesAre DEF IsGraph, IsTable, IsId
<1> QED  BY <1>1, <1>2 DEF Mapped

Ones(ss, id) == {d \in Differing(ss, Common(ss)) : Target(ss, d) = id}

\* A node that differs is a node of a source that is not common.
LEMMA DifferingIs ==
    ASSUME NEW ss \in Inputs
    PROVE  /\ \A d \in Differing(ss, Common(ss)) :
                 /\ d = <<d[1], d[2]>> /\ d[1] \in DOMAIN ss /\ d[2] \in DOMAIN ss[d[1]].nodes
                 /\ d[2] \notin DOMAIN Common(ss).nodes
           /\ \A i \in DOMAIN ss : \A x \in DOMAIN ss[i].nodes :
                 x \notin DOMAIN Common(ss).nodes => <<i, x>> \in Differing(ss, Common(ss))
BY DEF Differing

\* The draft holds what is common as it is, and at every other identity a version that
\* some source has there; every node of every source has one.
LEMMA DraftIs ==
    ASSUME NEW ss \in Inputs
    PROVE  LET d == Draft(ss, Common(ss))
               c == Common(ss)
           IN  /\ \A id \in DOMAIN c.nodes : id \in DOMAIN d.nodes /\ d.nodes[id] = c.nodes[id]
               /\ \A id \in DOMAIN d.nodes : id \notin DOMAIN c.nodes =>
                     d.nodes[id] = Placed(ss, Ones(ss, id)) /\ Ones(ss, id) # {}
               /\ \A id \in DOMAIN c.nodes : Ones(ss, id) = {}
               /\ \A i \in DOMAIN ss : \A x \in DOMAIN ss[i].nodes :
                     Image(Nodes(ss), i, x) \in DOMAIN d.nodes
<1> DEFINE c == Common(ss)
           d == Draft(ss, c)
           Targets == {Target(ss, e) : e \in Differing(ss, c)}
<1>1. d.nodes = Over(c.nodes, [id \in Targets |-> Placed(ss, Ones(ss, id))])
  BY DEF Draft, Ones
<1>2. DOMAIN d.nodes = DOMAIN c.nodes \union Targets
  BY <1>1 DEF Over
<1>3. \A id \in DOMAIN d.nodes :
         d.nodes[id] = IF id \in DOMAIN c.nodes THEN c.nodes[id] ELSE Placed(ss, Ones(ss, id))
  BY <1>1, <1>2 DEF Over
<1>4. ASSUME NEW id \in DOMAIN c.nodes, NEW e \in Ones(ss, id) PROVE FALSE
  <2>1. e[1] \in DOMAIN ss /\ e[2] \in DOMAIN ss[e[1]].nodes /\ e[2] \notin DOMAIN c.nodes
    BY DifferingIs DEF Ones
  <2>2. Image(Nodes(ss), e[1], e[2]) = id
    BY DEF Ones, Target
  <2>3. id \in DOMAIN ss[e[1]].nodes /\ Image(Nodes(ss), e[1], id) = id
    BY <2>1, CommonIs
  <2>4. id = e[2]
    BY <2>1, <2>2, <2>3, NodeImagesDiffer
  <2> QED  BY <2>1, <2>4
<1>5. \A id \in Targets : Ones(ss, id) # {}
  BY DEF Ones
<1>6. ASSUME NEW i \in DOMAIN ss, NEW x \in DOMAIN ss[i].nodes
      PROVE  Image(Nodes(ss), i, x) \in DOMAIN d.nodes
  <2>1. CASE x \in DOMAIN c.nodes
    BY <2>1, <1>2, CommonIs
  <2>2. CASE x \notin DOMAIN c.nodes
    <3>1. <<i, x>> \in Differing(ss, c)
      BY <2>2, DifferingIs
    <3>2. Target(ss, <<i, x>>) = Image(Nodes(ss), i, x)
      BY DEF Target
    <3> QED  BY <3>1, <3>2, <1>2
  <2> QED  BY <2>1, <2>2
<1>7. \A id \in DOMAIN c.nodes : Ones(ss, id) = {}
  BY <1>4
<1> HIDE DEF d, c, Targets
<1>8. \A id \in DOMAIN c.nodes : id \in DOMAIN d.nodes /\ d.nodes[id] = c.nodes[id]
  BY <1>2, <1>3
<1>9. \A id \in DOMAIN d.nodes : id \notin DOMAIN c.nodes =>
         d.nodes[id] = Placed(ss, Ones(ss, id)) /\ Ones(ss, id) # {}
  BY <1>2, <1>3, <1>5
<1> QED  BY <1>6, <1>7, <1>8, <1>9 DEF d, c

\* It holds every subgraph of every source as that source has it.
LEMMA DraftSubsAre ==
    ASSUME NEW ss \in Inputs, NEW i \in DOMAIN ss, NEW s \in DOMAIN ss[i].subs
    PROVE  LET d == Draft(ss, Common(ss))
           IN  /\ Image(Subs(ss), i, s) \in DOMAIN d.subs
               /\ d.subs[Image(Subs(ss), i, s)] = ss[i].subs[s]
<1> DEFINE V == SubVersions(ss)
           id == Image(Subs(ss), i, s)
           d == Draft(ss, Common(ss))
<1>1. <<id, ss[i].subs[s]>> \in V
  BY DEF SubVersions
<1>2. \A v \in V : \E k \in DOMAIN ss : \E t \in DOMAIN ss[k].subs :
         v = <<Image(Subs(ss), k, t), ss[k].subs[t]>>
  BY DEF SubVersions
<1>3. d.subs = [x \in {v[1] : v \in V} |-> (CHOOSE v \in V : v[1] = x)[2]]
  BY DEF Draft
<1> HIDE DEF V, id, d
<1>4. id \in {v[1] : v \in V}
  BY <1>1
<1>5. DOMAIN d.subs = {v[1] : v \in V}
  BY <1>3
<1>6. d.subs[id] = (CHOOSE v \in V : v[1] = id)[2]
  BY <1>3, <1>4
<1>7. PICK v \in V : v[1] = id /\ d.subs[id] = v[2]
  BY <1>1, <1>6
<1>8. PICK k \in DOMAIN ss : \E t \in DOMAIN ss[k].subs :
         v = <<Image(Subs(ss), k, t), ss[k].subs[t]>>
  BY <1>2
<1>9. PICK t \in DOMAIN ss[k].subs : v = <<Image(Subs(ss), k, t), ss[k].subs[t]>>
  BY <1>8
<1>10. Image(Subs(ss), k, t) = Image(Subs(ss), i, s)
  BY <1>7, <1>9 DEF id
<1>11. ss[k].subs[t] = ss[i].subs[s]
  BY <1>10, SubImagesDiffer
<1> QED  BY <1>4, <1>5, <1>7, <1>9, <1>11 DEF id, d

SameText(a, b) == a.kind = b.kind /\ a.says = b.says /\ a.status = b.status /\ a.by = b.by

\* Version y of source k, the last to hold it, placed at id with its relations.
PlacedAs(ss, id, k, y) ==
    LET node == ss[k].nodes[y]
        new  == Placed(ss, Ones(ss, id))
    IN  /\ id = Image(Nodes(ss), k, y)
        /\ \A e \in Ones(ss, id) :
              /\ e = <<e[1], y>> /\ e[1] \in DOMAIN ss
              /\ y \in DOMAIN ss[e[1]].nodes /\ ss[e[1]].nodes[y] = node
              /\ e[1] <= k
        /\ IsNode(new) /\ SameText(new, node)
        /\ new.in = UNION {{Image(Subs(ss), e[1], s) : s \in node.in} : e \in Ones(ss, id)}
        /\ new.heir = IF node.heir = NoId THEN NoId ELSE Image(Nodes(ss), k, node.heir)

\* The node placed at id is the version of every source that has one there, but for
\* its relations: it belongs to what each of them had it belong to.
LEMMA PlacedIs ==
    ASSUME NEW ss \in Inputs, NEW id, Ones(ss, id) # {}
    PROVE  \E k \in DOMAIN ss : \E y \in DOMAIN ss[k].nodes : PlacedAs(ss, id, k, y)
<1> DEFINE D == Ones(ss, id)
           T == {e[1] : e \in D}
           new == Placed(ss, D)
<1>1. \A e \in D : /\ e = <<e[1], e[2]>> /\ e[1] \in DOMAIN ss /\ e[2] \in DOMAIN ss[e[1]].nodes
                   /\ Image(Nodes(ss), e[1], e[2]) = id
  BY DifferingIs DEF Ones, Target
<1>2. \A e, h \in D : e[2] = h[2] /\ ss[e[1]].nodes[e[2]] = ss[h[1]].nodes[h[2]]
  BY <1>1, NodeImagesDiffer
<1>3. \E e \in D : \A h \in D : h[1] <= e[1]
  <2>1. PICK n \in 1 .. 3 : DOMAIN ss = 1 .. n
    BY SourcesAre
  <2>2. T \in SUBSET (1 .. n) /\ T # {}
    BY <1>1, <2>1
  <2>3. PICK m \in T : \A l \in T : l <= m
    <3>1. n \in Nat
      OBVIOUS
    <3> HIDE DEF T
    <3> QED  BY <2>2, <3>1, Greatest
  <2> QED  BY <2>3
<1> DEFINE last == CHOOSE e \in D : \A h \in D : h[1] <= e[1]
           node == Version(ss, last)
<1>4. last \in D /\ \A e \in D : e[1] <= last[1]
  BY <1>3
<1>5. new = [node EXCEPT
               !.in   = UNION {{Mapped(Subs(ss), e[1], s) : s \in node.in} : e \in D},
               !.heir = Mapped(Nodes(ss), last[1], node.heir),
               !.refs = @ \union {Ref(e[1]) : e \in D}]
  BY DEF Placed
<1> HIDE DEF last, D, new
<1>6. /\ last = <<last[1], last[2]>> /\ last[1] \in DOMAIN ss
      /\ last[2] \in DOMAIN ss[last[1]].nodes
      /\ Image(Nodes(ss), last[1], last[2]) = id
      /\ node = ss[last[1]].nodes[last[2]]
  BY <1>1, <1>4 DEF Version
<1>7. \A e \in D : /\ e = <<e[1], last[2]>> /\ e[1] \in DOMAIN ss
                   /\ last[2] \in DOMAIN ss[e[1]].nodes /\ ss[e[1]].nodes[last[2]] = node
  BY <1>1, <1>2, <1>4, <1>6
<1> HIDE DEF node
<1>8. /\ IsNode(node) /\ node.heir \in DOMAIN ss[last[1]].nodes \union {NoId}
      /\ \A e \in D : \A s \in node.in : s \in DOMAIN ss[e[1]].subs
  BY <1>6, <1>7, SourcesAre DEF IsGraph, Valid
<1>9. \A e \in D : \A s \in node.in : Mapped(Subs(ss), e[1], s) = Image(Subs(ss), e[1], s)
  BY <1>7, <1>8, MappedIs
<1>10. Mapped(Nodes(ss), last[1], node.heir)
          = IF node.heir = NoId THEN NoId ELSE Image(Nodes(ss), last[1], node.heir)
  BY <1>6, <1>8, MappedIs
<1>11. UNION {{Mapped(Subs(ss), e[1], s) : s \in node.in} : e \in D}
          = UNION {{Image(Subs(ss), e[1], s) : s \in node.in} : e \in D}
  BY <1>9
<1> DEFINE A == UNION {{Mapped(Subs(ss), e[1], s) : s \in node.in} : e \in D}
           H == Mapped(Nodes(ss), last[1], node.heir)
           B == node.refs \union {Ref(e[1]) : e \in D}
<1>12. new = [kind |-> node.kind, says |-> node.says, status |-> node.status, in |-> A,
              refs |-> B, by |-> node.by, heir |-> H]
  BY <1>5, <1>8 DEF IsNode
<1>13. IsNode(new) /\ SameText(new, node) /\ new.in = A /\ new.heir = H
  <2> HIDE DEF A, B, H
  <2>1. new.kind = node.kind /\ new.says = node.says /\ new.status = node.status
    BY <1>12
  <2>2. new.by = node.by /\ new.in = A /\ new.refs = B /\ new.heir = H
    BY <1>12
  <2>3. IsNode(new)
    BY <1>12, <2>1, <2>2 DEF IsNode
  <2> QED  BY <2>1, <2>2, <2>3 DEF SameText
<1>14. new.in = UNION {{Image(Subs(ss), e[1], s) : s \in node.in} : e \in D}
  BY <1>13, <1>11
<1>15. new.heir = IF node.heir = NoId THEN NoId ELSE Image(Nodes(ss), last[1], node.heir)
  BY <1>13, <1>10
<1>16. PlacedAs(ss, id, last[1], last[2])
  <2>1. ss[last[1]].nodes[last[2]] = node /\ Ones(ss, id) = D /\ Placed(ss, D) = new
    BY <1>6 DEF D, new
  <2> QED  BY <2>1, <1>4, <1>6, <1>7, <1>13, <1>14, <1>15, SMTT(30) DEF PlacedAs
<1> QED  BY <1>6, <1>16

\* A graph that holds together, and whose nodes and subgraphs are well-formed.
LEMMA DraftValid ==
    ASSUME NEW ss \in Inputs
    PROVE  Valid(Draft(ss, Common(ss)))
<1> DEFINE c == Common(ss)
           d == Draft(ss, c)
           NImage(i, x) == Image(Nodes(ss), i, x)
           SImage(i, x) == Image(Subs(ss), i, x)
<1>1. \A i \in DOMAIN ss : IsGraph(ss[i]) /\ Valid(ss[i])
  BY SourcesAre
<1>2. 1 \in DOMAIN ss
  BY SourcesAre
<1>3. \A i \in DOMAIN ss : \A x \in DOMAIN ss[i].nodes : NImage(i, x) \in DOMAIN d.nodes
  BY DraftIs
<1>4. \A i \in DOMAIN ss : \A x \in DOMAIN ss[i].subs : SImage(i, x) \in DOMAIN d.subs
  BY DraftSubsAre
<1>5. \A x \in DOMAIN ss[1].nodes : NImage(1, x) = x
  <2>1. Family(Nodes(ss)) /\ Nodes(ss)[1] = ss[1].nodes
    BY <1>2, Families
  <2> QED  BY <2>1, FirstKeeps
<1>6. \A x \in DOMAIN ss[1].subs : SImage(1, x) = x
  <2>1. Family(Subs(ss)) /\ Subs(ss)[1] = ss[1].subs
    BY <1>2, Families
  <2> QED  BY <2>1, FirstKeeps
<1>7. ASSUME NEW id \in DOMAIN d.nodes
      PROVE  /\ d.nodes[id].in \subseteq DOMAIN d.subs
             /\ d.nodes[id].heir \in (DOMAIN d.nodes \ {id}) \union {NoId}
  <2>1. CASE id \in DOMAIN c.nodes
    <3>1. id \in DOMAIN ss[1].nodes /\ d.nodes[id] = ss[1].nodes[id]
      <4>1. d.nodes[id] = c.nodes[id]
        BY <2>1, DraftIs
      <4> QED  BY <4>1, <2>1, <1>2, CommonIs
    <3>2. /\ ss[1].nodes[id].in \subseteq DOMAIN ss[1].subs
          /\ ss[1].nodes[id].heir \in (DOMAIN ss[1].nodes \ {id}) \union {NoId}
      BY <3>1, <1>1, <1>2 DEF Valid
    <3> HIDE DEF d, NImage, SImage
    <3> QED  BY <3>1, <3>2, <1>2, <1>3, <1>4, <1>5, <1>6
  <2>2. CASE id \notin DOMAIN c.nodes
    <3> DEFINE new == Placed(ss, Ones(ss, id))
    <3>1. d.nodes[id] = new /\ Ones(ss, id) # {}
      BY <2>2, DraftIs
    <3>2. PICK k \in DOMAIN ss : \E y \in DOMAIN ss[k].nodes : PlacedAs(ss, id, k, y)
      BY <3>1, PlacedIs
    <3>3. PICK y \in DOMAIN ss[k].nodes : PlacedAs(ss, id, k, y)
      BY <3>2
    <3> DEFINE node == ss[k].nodes[y]
    <3>9. /\ id = NImage(k, y)
          /\ \A e \in Ones(ss, id) : /\ e[1] \in DOMAIN ss /\ y \in DOMAIN ss[e[1]].nodes
                                   /\ ss[e[1]].nodes[y] = node
          /\ new.in = UNION {{SImage(e[1], s) : s \in node.in} : e \in Ones(ss, id)}
          /\ new.heir = IF node.heir = NoId THEN NoId ELSE NImage(k, node.heir)
      BY <3>3 DEF PlacedAs
    <3>4. node.heir \in (DOMAIN ss[k].nodes \ {y}) \union {NoId}
      BY <1>1 DEF Valid
    <3>5. \A e \in Ones(ss, id) : e[1] \in DOMAIN ss /\ node.in \subseteq DOMAIN ss[e[1]].subs
      BY <3>9, <1>1 DEF Valid
    <3>6. new.in \subseteq DOMAIN d.subs
      <4> HIDE DEF d, SImage, NImage, new, node
      <4> QED  BY <3>9, <3>5, <1>4 DEF node
    <3>7. CASE node.heir = NoId
      BY <3>1, <3>9, <3>6, <3>7
    <3>8. CASE node.heir # NoId
      <4>1. node.heir \in DOMAIN ss[k].nodes /\ node.heir # y
        BY <3>4, <3>8
      <4>2. NImage(k, node.heir) # NImage(k, y)
        BY <4>1, NodeImagesDiffer
      <4>3. NImage(k, node.heir) \in DOMAIN d.nodes
        BY <4>1, <1>3
      <4>4. new.heir = NImage(k, node.heir) /\ id = NImage(k, y)
        BY <3>9, <3>8
      <4> HIDE DEF d, NImage, new
      <4> QED  BY <4>2, <4>3, <4>4, <3>1, <3>6
    <3> QED  BY <3>7, <3>8
  <2> QED  BY <2>1, <2>2
<1>8. ASSUME NEW e \in d.edges
      PROVE  /\ e.to \in DOMAIN d.nodes
             /\ e.from[2] \in (IF e.from[1] = "node" THEN DOMAIN d.nodes ELSE DOMAIN d.subs)
  <2>1. CASE e \in c.edges
    <3>1. e \in ss[1].edges
      BY <2>1, <1>2, CommonIs
    <3>2. /\ e.to \in DOMAIN ss[1].nodes
          /\ e.from[2] \in (IF e.from[1] = "node" THEN DOMAIN ss[1].nodes ELSE DOMAIN ss[1].subs)
      BY <3>1, <1>1, <1>2 DEF Valid
    <3> HIDE DEF d, NImage, SImage
    <3> QED  BY <3>2, <1>2, <1>3, <1>4, <1>5, <1>6
  <2>2. ASSUME NEW i \in DOMAIN ss, NEW o \in ss[i].edges, e = Rewritten(ss, i, o)
        PROVE  /\ e.to \in DOMAIN d.nodes
               /\ e.from[2] \in (IF e.from[1] = "node" THEN DOMAIN d.nodes ELSE DOMAIN d.subs)
    <3>1. /\ o.to \in DOMAIN ss[i].nodes
          /\ o.from[2] \in (IF o.from[1] = "node" THEN DOMAIN ss[i].nodes ELSE DOMAIN ss[i].subs)
      BY <1>1 DEF Valid
    <3>2. /\ e.to = Mapped(Nodes(ss), i, o.to) /\ e.from[1] = o.from[1]
          /\ e.from[2] = IF o.from[1] = "node" THEN Mapped(Nodes(ss), i, o.from[2])
                                               ELSE Mapped(Subs(ss), i, o.from[2])
      BY <2>2 DEF Rewritten
    <3>3. /\ e.to = NImage(i, o.to)
          /\ e.from[2] = IF o.from[1] = "node" THEN NImage(i, o.from[2])
                                               ELSE SImage(i, o.from[2])
      BY <3>1, <3>2, MappedIs
    <3> HIDE DEF d, NImage, SImage
    <3> QED  BY <3>1, <3>2, <3>3, <1>3, <1>4
  <2>3. e \in c.edges \/ \E i \in DOMAIN ss : \E o \in ss[i].edges : e = Rewritten(ss, i, o)
    <3>1. d.edges = c.edges \union UNION {{Rewritten(ss, i, o) : o \in ss[i].edges} : i \in DOMAIN ss}
      BY DEF Draft
    <3> QED  BY <3>1
  <2> QED  BY <2>1, <2>2, <2>3
<1> HIDE DEF d
<1>9. Valid(d)
  BY <1>7, <1>8 DEF Valid
<1> QED  BY <1>9 DEF d

\* A node without its relations.
LEMMA BareIs ==
    ASSUME NEW n, IsNode(n)
    PROVE  [n EXCEPT !.in = {}, !.refs = {}, !.heir = NoId]
              = [kind |-> n.kind, says |-> n.says, status |-> n.status, in |-> {},
                 refs |-> {}, by |-> n.by, heir |-> NoId]
<1>1. PICK k, s, t, i, r, w, o :
         n = [kind |-> k, says |-> s, status |-> t, in |-> i, refs |-> r, by |-> w, heir |-> o]
  BY DEF IsNode
<1>2. n.kind = k /\ n.says = s /\ n.status = t /\ n.by = w
  BY <1>1
<1> DEFINE n1 == [n EXCEPT !.in = {}]
           n2 == [n1 EXCEPT !.refs = {}]
           n3 == [n2 EXCEPT !.heir = NoId]
<1>3. n1 = [kind |-> k, says |-> s, status |-> t, in |-> {}, refs |-> r, by |-> w, heir |-> o]
  BY <1>1
<1> HIDE DEF n1
<1>4. n2 = [kind |-> k, says |-> s, status |-> t, in |-> {}, refs |-> {}, by |-> w, heir |-> o]
  BY <1>3
<1> HIDE DEF n2
<1>5. n3 = [kind |-> k, says |-> s, status |-> t, in |-> {}, refs |-> {}, by |-> w, heir |-> NoId]
  BY <1>4
<1> HIDE DEF n3
<1>6. n3 = [kind |-> n.kind, says |-> n.says, status |-> n.status, in |-> {},
            refs |-> {}, by |-> n.by, heir |-> NoId]
  BY <1>2, <1>5
<1> QED  BY <1>6 DEF n1, n2, n3

\* Every source has its place in the draft.
LEMMA DraftEmbeds ==
    ASSUME NEW ss \in Inputs, sources = ss, common = Common(ss), draft = Draft(ss, common),
           NEW i \in DOMAIN ss
    PROVE  Embeds(i)
<1> DEFINE g == ss[i]
           f == [x \in DOMAIN g.nodes |-> Image(Nodes(ss), i, x)]
           h == [s \in DOMAIN g.subs |-> Image(Subs(ss), i, s)]
<1>1. IsGraph(g) /\ Valid(g)
  BY SourcesAre
<1>2. f \in [DOMAIN g.nodes -> DOMAIN draft.nodes]
  <2>1. \A x \in DOMAIN g.nodes : Image(Nodes(ss), i, x) \in DOMAIN draft.nodes
    BY DraftIs
  <2> QED  BY <2>1
<1>3. h \in [DOMAIN g.subs -> DOMAIN draft.subs] /\ \A s \in DOMAIN g.subs : draft.subs[h[s]] = g.subs[s]
  <2>1. \A s \in DOMAIN g.subs : /\ Image(Subs(ss), i, s) \in DOMAIN draft.subs
                                 /\ draft.subs[Image(Subs(ss), i, s)] = g.subs[s]
    BY DraftSubsAre
  <2> QED  BY <2>1
<1>4. Injective(f)
  <2> SUFFICES ASSUME NEW x \in DOMAIN g.nodes, NEW y \in DOMAIN g.nodes, f[x] = f[y] PROVE x = y
    BY DEF Injective
  <2>1. Image(Nodes(ss), i, x) = Image(Nodes(ss), i, y)
    OBVIOUS
  <2> QED  BY <2>1, NodeImagesDiffer
<1>5. Injective(h)
  <2> SUFFICES ASSUME NEW x \in DOMAIN g.subs, NEW y \in DOMAIN g.subs, h[x] = h[y] PROVE x = y
    BY DEF Injective
  <2>1. Image(Subs(ss), i, x) = Image(Subs(ss), i, y)
    OBVIOUS
  <2> QED  BY <2>1, SubImagesDiffer
<1>6. ASSUME NEW id \in DOMAIN g.nodes
      PROVE  LET old == g.nodes[id]
                 new == draft.nodes[f[id]]
             IN  /\ [new EXCEPT !.in = {}, !.refs = {}, !.heir = NoId]
                       = [old EXCEPT !.in = {}, !.refs = {}, !.heir = NoId]
                 /\ id \in DOMAIN common.nodes => new = old
                 /\ id \notin DOMAIN common.nodes =>
                       /\ {h[s] : s \in old.in} \subseteq new.in
                       /\ LastHolder(i, id) =>
                             new.heir = IF old.heir = NoId THEN NoId ELSE f[old.heir]
  <2> DEFINE old == g.nodes[id]
             new == draft.nodes[f[id]]
  <2>1. IsNode(old) /\ old.in \subseteq DOMAIN g.subs
    BY <1>1 DEF IsGraph, Valid
  <2>2. f[id] = Image(Nodes(ss), i, id)
    OBVIOUS
  <2>7. old.heir \in DOMAIN g.nodes \union {NoId}
    BY <1>1 DEF Valid
  <2>3. CASE id \in DOMAIN common.nodes
    <3>1. f[id] = id /\ old = common.nodes[id]
      BY <2>2, <2>3, CommonIs
    <3>2. new = common.nodes[id]
      BY <3>1, <2>3, DraftIs
    <3>3. new = old
      BY <3>1, <3>2
    <3> HIDE DEF f, old, new
    <3> QED  BY <3>3, <2>3 DEF old, new
  <2>4. CASE id \notin DOMAIN common.nodes
    <3> DEFINE d  == <<i, id>>
               to == f[id]
    <3>1. d \in Ones(ss, to)
      BY <2>4, <2>2, DifferingIs DEF Ones, Target
    <3>2. new = Placed(ss, Ones(ss, to))
      BY <3>1, <1>2, DraftIs
    <3>3. PICK k \in DOMAIN ss : \E y \in DOMAIN ss[k].nodes : PlacedAs(ss, to, k, y)
      BY <3>1, PlacedIs
    <3>4. PICK y \in DOMAIN ss[k].nodes : PlacedAs(ss, to, k, y)
      BY <3>3
    <3> HIDE DEF f, to, d
    <3>5. d = <<d[1], y>> /\ ss[d[1]].nodes[y] = ss[k].nodes[y]
      BY <3>1, <3>4 DEF PlacedAs
    <3>6. d[1] = i /\ y = id
      BY <3>5 DEF d
    <3>7. old = ss[k].nodes[y]
      BY <3>5, <3>6
    <3>8. IsNode(new) /\ SameText(new, old) /\ {Image(Subs(ss), d[1], s) : s \in old.in} \subseteq new.in
      <4>1. /\ IsNode(Placed(ss, Ones(ss, to))) /\ SameText(Placed(ss, Ones(ss, to)), ss[k].nodes[y])
            /\ Placed(ss, Ones(ss, to)).in
                  = UNION {{Image(Subs(ss), e[1], s) : s \in ss[k].nodes[y].in} : e \in Ones(ss, to)}
        BY <3>4 DEF PlacedAs
      <4> HIDE DEF old, new
      <4> QED  BY <4>1, <3>1, <3>2, <3>7 DEF to
    <3>9. {h[s] : s \in old.in} \subseteq new.in
      <4>1. \A s \in old.in : s \in DOMAIN g.subs
        <5> HIDE DEF old, h
        <5> QED  BY <2>1
      <4>2. \A s \in DOMAIN g.subs : h[s] = Image(Subs(ss), i, s)
        OBVIOUS
      <4> HIDE DEF h, old, new, g
      <4> QED  BY <4>1, <4>2, <3>6, <3>8
    <3>10. [new EXCEPT !.in = {}, !.refs = {}, !.heir = NoId]
              = [old EXCEPT !.in = {}, !.refs = {}, !.heir = NoId]
      <4> HIDE DEF old, new, g
      <4>1. IsNode(old) /\ IsNode(new) /\ SameText(new, old)
        BY <2>1, <3>8
      <4>2. [new EXCEPT !.in = {}, !.refs = {}, !.heir = NoId]
               = [kind |-> new.kind, says |-> new.says, status |-> new.status, in |-> {},
                  refs |-> {}, by |-> new.by, heir |-> NoId]
        BY <4>1, BareIs, Zenon
      <4>3. [old EXCEPT !.in = {}, !.refs = {}, !.heir = NoId]
               = [kind |-> old.kind, says |-> old.says, status |-> old.status, in |-> {},
                  refs |-> {}, by |-> old.by, heir |-> NoId]
        BY <4>1, BareIs, Zenon
      <4> QED  BY <4>1, <4>2, <4>3 DEF SameText
    <3>11. ASSUME LastHolder(i, id)
           PROVE  new.heir = IF old.heir = NoId THEN NoId ELSE f[old.heir]
      <4>1. \A j \in DOMAIN ss :
               j > i => ~(id \in DOMAIN ss[j].nodes /\ ss[j].nodes[id] = old)
        BY <3>11 DEF LastHolder
      <4>2. id \in DOMAIN ss[k].nodes /\ ss[k].nodes[id] = old /\ i <= k /\ k \in DOMAIN ss
        BY <3>1, <3>4, <3>6, <3>7 DEF PlacedAs
      <4>3. i \in Nat /\ k \in Nat
        BY <4>2, SourcesAre
      <4>4. k = i
        <5> HIDE DEF old
        <5> QED  BY <4>1, <4>2, <4>3
      <4>5. Placed(ss, Ones(ss, to)).heir
               = IF old.heir = NoId THEN NoId ELSE Image(Nodes(ss), k, old.heir)
        BY <3>4, <3>7 DEF PlacedAs
      <4>6. new.heir = IF old.heir = NoId THEN NoId ELSE Image(Nodes(ss), i, old.heir)
        <5> HIDE DEF old, new
        <5> QED  BY <4>4, <4>5, <3>2
      <4>7. old.heir # NoId => f[old.heir] = Image(Nodes(ss), i, old.heir)
        <5> HIDE DEF old
        <5> QED  BY <2>7 DEF f
      <4> HIDE DEF old, new
      <4> QED  BY <4>6, <4>7
    <3> HIDE DEF old, new
    <3> QED  BY <3>9, <3>10, <3>11, <2>4 DEF old, new
  <2> QED  BY <2>3, <2>4
<1>7. ASSUME NEW e \in g.edges
      PROVE  \E k \in draft.edges :
                /\ k.to = f[e.to] /\ k.from[1] = e.from[1]
                /\ k.from[2] = IF e.from[1] = "node" THEN f[e.from[2]] ELSE h[e.from[2]]
  <2>1. Rewritten(ss, i, e) \in draft.edges
    <3>1. draft.edges = common.edges
             \union UNION {{Rewritten(ss, j, o) : o \in ss[j].edges} : j \in DOMAIN ss}
      BY DEF Draft
    <3> QED  BY <3>1
  <2>2. /\ e.to \in DOMAIN g.nodes
        /\ e.from[2] \in (IF e.from[1] = "node" THEN DOMAIN g.nodes ELSE DOMAIN g.subs)
    BY <1>1 DEF Valid
  <2> DEFINE k == Rewritten(ss, i, e)
  <2>3. /\ k.to = Mapped(Nodes(ss), i, e.to) /\ k.from[1] = e.from[1]
        /\ k.from[2] = IF e.from[1] = "node" THEN Mapped(Nodes(ss), i, e.from[2])
                                             ELSE Mapped(Subs(ss), i, e.from[2])
    BY DEF Rewritten
  <2>4. /\ k.to = Image(Nodes(ss), i, e.to) /\ k.from[1] = e.from[1]
        /\ k.from[2] = IF e.from[1] = "node" THEN Image(Nodes(ss), i, e.from[2])
                                             ELSE Image(Subs(ss), i, e.from[2])
    <3> HIDE DEF k
    <3> QED  BY <2>2, <2>3, MappedIs
  <2>5. /\ k.to = f[e.to] /\ k.from[1] = e.from[1]
        /\ k.from[2] = IF e.from[1] = "node" THEN f[e.from[2]] ELSE h[e.from[2]]
    <3> HIDE DEF k
    <3> QED  BY <2>2, <2>4
  <2> QED  BY <2>1, <2>5
<1> DEFINE o == sources[i]
<1>8. \E ff \in [DOMAIN o.nodes -> DOMAIN draft.nodes], hh \in [DOMAIN o.subs -> DOMAIN draft.subs] :
         /\ Injective(ff) /\ Injective(hh)
         /\ \A s \in DOMAIN o.subs : draft.subs[hh[s]] = o.subs[s]
         /\ \A id \in DOMAIN o.nodes :
               LET old == o.nodes[id]
                   new == draft.nodes[ff[id]]
               IN  /\ [new EXCEPT !.in = {}, !.refs = {}, !.heir = NoId]
                         = [old EXCEPT !.in = {}, !.refs = {}, !.heir = NoId]
                   /\ id \in DOMAIN common.nodes => new = old
                   /\ id \notin DOMAIN common.nodes =>
                         /\ {hh[s] : s \in old.in} \subseteq new.in
                         /\ LastHolder(i, id) =>
                               new.heir = IF old.heir = NoId THEN NoId ELSE ff[old.heir]
         /\ \A e \in o.edges :
               \E k \in draft.edges :
                   /\ k.to = ff[e.to] /\ k.from[1] = e.from[1]
                   /\ k.from[2] = IF e.from[1] = "node" THEN ff[e.from[2]] ELSE hh[e.from[2]]
  <2>1. o = g
    OBVIOUS
  <2> HIDE DEF f, h, g, o
  <2>2. f \in [DOMAIN o.nodes -> DOMAIN draft.nodes] /\ h \in [DOMAIN o.subs -> DOMAIN draft.subs]
    BY <1>2, <1>3, <2>1
  <2>3. Injective(f) /\ Injective(h) /\ \A s \in DOMAIN o.subs : draft.subs[h[s]] = o.subs[s]
    BY <1>3, <1>4, <1>5, <2>1
  <2>4. \A id \in DOMAIN o.nodes :
           LET old == o.nodes[id]
               new == draft.nodes[f[id]]
           IN  /\ [new EXCEPT !.in = {}, !.refs = {}, !.heir = NoId]
                     = [old EXCEPT !.in = {}, !.refs = {}, !.heir = NoId]
               /\ id \in DOMAIN common.nodes => new = old
               /\ id \notin DOMAIN common.nodes =>
                     /\ {h[s] : s \in old.in} \subseteq new.in
                     /\ LastHolder(i, id) =>
                           new.heir = IF old.heir = NoId THEN NoId ELSE f[old.heir]
    BY <1>6, <2>1
  <2>5. \A e \in o.edges :
           \E k \in draft.edges :
               /\ k.to = f[e.to] /\ k.from[1] = e.from[1]
               /\ k.from[2] = IF e.from[1] = "node" THEN f[e.from[2]] ELSE h[e.from[2]]
    BY <1>7, <2>1, Zenon
  <2> USE <2>2
  <2> WITNESS f \in [DOMAIN o.nodes -> DOMAIN draft.nodes], h \in [DOMAIN o.subs -> DOMAIN draft.subs]
  <2> QED  BY <2>3, <2>4, <2>5, Zenon
<1> HIDE DEF f, h, g
<1> QED  BY ONLY <1>8, Zenon DEF Embeds

-----------------------------------------------------------------------------
(* What the organizer is shown *)

SameShape(g, h) ==
    /\ DOMAIN g.nodes = DOMAIN h.nodes /\ DOMAIN g.subs = DOMAIN h.subs /\ g.edges = h.edges
    /\ \A id \in DOMAIN g.nodes : g.nodes[id].in = h.nodes[id].in /\ g.nodes[id].heir = h.nodes[id].heir

\* Whether a graph holds together depends on its shape only.
LEMMA ShapeIsEnough ==
    ASSUME NEW g, NEW h, SameShape(g, h), Valid(g)
    PROVE  Valid(h)
BY DEF SameShape, Valid

\* What composition yields, part by part.
LEMMA ComposedIs ==
    ASSUME NEW c, NEW g
    PROVE  LET r == Composed(c, g)
           IN  /\ r = [nodes |-> r.nodes, subs |-> r.subs, edges |-> r.edges]
               /\ r.edges = c.edges \union g.edges
               /\ DOMAIN r.nodes = DOMAIN g.nodes \union DOMAIN c.nodes
               /\ DOMAIN r.subs = DOMAIN g.subs \union DOMAIN c.subs
               /\ \A id \in DOMAIN r.nodes :
                     r.nodes[id] = IF id \in DOMAIN g.nodes THEN g.nodes[id] ELSE c.nodes[id]
<1> DEFINE r == Composed(c, g)
<1>1. r = [nodes |-> Over(g.nodes, c.nodes), subs |-> Over(g.subs, c.subs),
           edges |-> c.edges \union g.edges]
  BY DEF Composed
<1> HIDE DEF r
<1>2. /\ r.nodes = Over(g.nodes, c.nodes) /\ r.subs = Over(g.subs, c.subs)
      /\ r.edges = c.edges \union g.edges
  BY <1>1
<1>3. r = [nodes |-> r.nodes, subs |-> r.subs, edges |-> r.edges]
  BY <1>1, <1>2
<1>4. /\ DOMAIN r.nodes = DOMAIN g.nodes \union DOMAIN c.nodes
      /\ DOMAIN r.subs = DOMAIN g.subs \union DOMAIN c.subs
  BY <1>2 DEF Over
<1>5. \A id \in DOMAIN r.nodes :
         r.nodes[id] = IF id \in DOMAIN g.nodes THEN g.nodes[id] ELSE c.nodes[id]
  BY <1>2, <1>4 DEF Over
<1> QED  BY <1>2, <1>3, <1>4, <1>5 DEF r

\* Graphs of one shape compose to graphs of one shape.
LEMMA ComposedShape ==
    ASSUME NEW c, NEW g, NEW h, SameShape(g, h)
    PROVE  SameShape(Composed(c, g), Composed(c, h))
<1> DEFINE r == Composed(c, g)
           q == Composed(c, h)
<1>1. /\ r.edges = c.edges \union g.edges
      /\ DOMAIN r.nodes = DOMAIN g.nodes \union DOMAIN c.nodes
      /\ DOMAIN r.subs = DOMAIN g.subs \union DOMAIN c.subs
      /\ \A id \in DOMAIN r.nodes :
            r.nodes[id] = IF id \in DOMAIN g.nodes THEN g.nodes[id] ELSE c.nodes[id]
  BY ComposedIs
<1>2. /\ q.edges = c.edges \union h.edges
      /\ DOMAIN q.nodes = DOMAIN h.nodes \union DOMAIN c.nodes
      /\ DOMAIN q.subs = DOMAIN h.subs \union DOMAIN c.subs
      /\ \A id \in DOMAIN q.nodes :
            q.nodes[id] = IF id \in DOMAIN h.nodes THEN h.nodes[id] ELSE c.nodes[id]
  BY ComposedIs
<1> HIDE DEF r, q
<1>3. SameShape(r, q)
  BY <1>1, <1>2 DEF SameShape
<1> QED  BY <1>3 DEF r, q

\* The scope is a part of the draft, and the rest is common.
LEMMA ScopeIs ==
    ASSUME NEW c, NEW d
    PROVE  LET v == Scope(c, d)
           IN  /\ v = [nodes |-> v.nodes, subs |-> v.subs, edges |-> v.edges]
               /\ DOMAIN v.nodes \subseteq DOMAIN d.nodes /\ DOMAIN v.subs \subseteq DOMAIN d.subs
               /\ \A id \in DOMAIN v.nodes : v.nodes[id] = d.nodes[id]
               /\ \A s \in DOMAIN v.subs : v.subs[s] = d.subs[s]
               /\ DOMAIN d.nodes \subseteq DOMAIN v.nodes \union DOMAIN c.nodes
               /\ DOMAIN d.subs \subseteq DOMAIN v.subs \union DOMAIN c.subs
               /\ v.edges \subseteq d.edges /\ d.edges \subseteq v.edges \union c.edges
<1> DEFINE settled == {e \in c.edges : /\ e.to \in DOMAIN c.nodes
                                       /\ e.from[2] \in (IF e.from[1] = "node" THEN DOMAIN c.nodes
                                                                               ELSE DOMAIN c.subs)}
           edges == d.edges \ settled
           named == (DOMAIN d.nodes \ DOMAIN c.nodes)
                       \union {e.to : e \in edges}
                       \union {e.from[2] : e \in {e \in edges : e.from[1] = "node"}}
           closed == {S \in SUBSET DOMAIN d.nodes :
                         named \subseteq S /\ \A id \in S : d.nodes[id].heir \in S \union {NoId}}
           ns == {id \in DOMAIN d.nodes : \A S \in closed : id \in S}
           bs == (DOMAIN d.subs \ DOMAIN c.subs)
                    \union {e.from[2] : e \in {e \in edges : e.from[1] = "sub"}}
                    \union UNION {d.nodes[id].in : id \in ns}
           v == Scope(c, d)
<1>1. v = [nodes |-> Only(d.nodes, ns), subs |-> Only(d.subs, bs), edges |-> edges]
  BY DEF Scope
<1>2. DOMAIN d.nodes \ DOMAIN c.nodes \subseteq ns
  <2>1. DOMAIN d.nodes \ DOMAIN c.nodes \subseteq named
    OBVIOUS
  <2>2. \A S \in closed : named \subseteq S
    OBVIOUS
  <2> HIDE DEF named, closed
  <2> QED  BY <2>1, <2>2
<1>3. DOMAIN d.subs \ DOMAIN c.subs \subseteq bs
  OBVIOUS
<1>4. edges \subseteq d.edges /\ d.edges \subseteq edges \union c.edges
  OBVIOUS
<1> HIDE DEF ns, bs, edges, v
<1>5. v.nodes = Only(d.nodes, ns) /\ v.subs = Only(d.subs, bs) /\ v.edges = edges
  BY <1>1
<1>6. /\ DOMAIN v.nodes = DOMAIN d.nodes \intersect ns
      /\ \A id \in DOMAIN v.nodes : v.nodes[id] = d.nodes[id]
  BY <1>5 DEF Only
<1>7. /\ DOMAIN v.subs = DOMAIN d.subs \intersect bs
      /\ \A s \in DOMAIN v.subs : v.subs[s] = d.subs[s]
  BY <1>5 DEF Only
<1>8. v = [nodes |-> v.nodes, subs |-> v.subs, edges |-> v.edges]
  BY <1>1, <1>5
<1> QED  BY <1>2, <1>3, <1>4, <1>5, <1>6, <1>7, <1>8 DEF v

\* The draft is well-formed, and holds what is common as it is.
LEMMA DraftStored ==
    ASSUME NEW ss \in Inputs
    PROVE  LET c == Common(ss)
               d == Draft(ss, c)
           IN  /\ IsFiniteSet(DOMAIN d.nodes)
               /\ \A id \in DOMAIN d.nodes : IsNode(d.nodes[id])
               /\ c = [nodes |-> c.nodes, subs |-> c.subs, edges |-> c.edges]
               /\ \A s \in DOMAIN c.subs : s \in DOMAIN d.subs /\ d.subs[s] = c.subs[s]
               /\ c.edges \subseteq d.edges
<1> DEFINE c == Common(ss)
           d == Draft(ss, c)
           At(i) == {Image(Nodes(ss), i, x) : x \in DOMAIN ss[i].nodes}
           All == {At(i) : i \in DOMAIN ss}
<1>1. 1 \in DOMAIN ss /\ \A i \in DOMAIN ss : IsGraph(ss[i])
  BY SourcesAre
<1>2. DOMAIN d.nodes \subseteq UNION All
  <2> SUFFICES ASSUME NEW id \in DOMAIN d.nodes
               PROVE  \E i \in DOMAIN ss : \E x \in DOMAIN ss[i].nodes : id = Image(Nodes(ss), i, x)
    OBVIOUS
  <2>1. CASE id \in DOMAIN c.nodes
    <3>1. id \in DOMAIN ss[1].nodes /\ Image(Nodes(ss), 1, id) = id
      BY <2>1, <1>1, CommonIs
    <3> QED  BY <3>1, <1>1
  <2>2. CASE id \notin DOMAIN c.nodes
    <3>1. Ones(ss, id) # {}
      BY <2>2, DraftIs
    <3>2. PICK e \in Ones(ss, id) : TRUE
      BY <3>1
    <3> QED  BY <3>2, DifferingIs DEF Ones, Target
  <2> QED  BY <2>1, <2>2
<1>3. \A i \in DOMAIN ss : IsFiniteSet(At(i))
  <2> SUFFICES ASSUME NEW i \in DOMAIN ss PROVE IsFiniteSet(At(i))
    OBVIOUS
  <2> DEFINE f == [x \in DOMAIN ss[i].nodes |-> Image(Nodes(ss), i, x)]
  <2>1. IsFiniteSet(DOMAIN ss[i].nodes)
    BY <1>1 DEF IsGraph, IsTable
  <2>2. DOMAIN f = DOMAIN ss[i].nodes /\ At(i) = {f[x] : x \in DOMAIN f}
    OBVIOUS
  <2> HIDE DEF f, At
  <2> QED  BY <2>1, <2>2, FiniteImage
<1>4. IsFiniteSet(All)
  <2> DEFINE f == [i \in DOMAIN ss |-> At(i)]
  <2>1. IsFiniteSet(DOMAIN ss)
    <3>1. PICK n \in 1 .. 3 : DOMAIN ss = 1 .. n
      BY SourcesAre
    <3> QED  BY <3>1, FS_Interval
  <2>2. DOMAIN f = DOMAIN ss /\ All = {f[i] : i \in DOMAIN f}
    OBVIOUS
  <2> HIDE DEF f, All
  <2> QED  BY <2>1, <2>2, FiniteImage
<1>5. IsFiniteSet(DOMAIN d.nodes)
  <2>1. \A T \in All : IsFiniteSet(T)
    BY <1>3
  <2> HIDE DEF All, d
  <2>2. IsFiniteSet(UNION All)
    BY <1>4, <2>1, FS_UNION
  <2> QED  BY <1>2, <2>2, FS_Subset
<1>6. ASSUME NEW id \in DOMAIN d.nodes PROVE IsNode(d.nodes[id])
  <2>1. CASE id \in DOMAIN c.nodes
    <3>1. d.nodes[id] = c.nodes[id] /\ id \in DOMAIN ss[1].nodes /\ ss[1].nodes[id] = c.nodes[id]
      BY <2>1, <1>1, DraftIs, CommonIs
    <3>2. IsNode(ss[1].nodes[id])
      BY <3>1, <1>1 DEF IsGraph
    <3> QED  BY <3>1, <3>2
  <2>2. CASE id \notin DOMAIN c.nodes
    <3>1. d.nodes[id] = Placed(ss, Ones(ss, id)) /\ Ones(ss, id) # {}
      BY <2>2, DraftIs
    <3>2. IsNode(Placed(ss, Ones(ss, id)))
      BY <3>1, PlacedIs DEF PlacedAs
    <3> QED  BY <3>1, <3>2
  <2> QED  BY <2>1, <2>2
<1>7. \A s \in DOMAIN c.subs : s \in DOMAIN d.subs /\ d.subs[s] = c.subs[s]
  <2> SUFFICES ASSUME NEW s \in DOMAIN c.subs PROVE s \in DOMAIN d.subs /\ d.subs[s] = c.subs[s]
    OBVIOUS
  <2>1. s \in DOMAIN ss[1].subs /\ ss[1].subs[s] = c.subs[s] /\ Image(Subs(ss), 1, s) = s
    BY <1>1, CommonIs
  <2> QED  BY <2>1, <1>1, DraftSubsAre
<1>8. c = [nodes |-> c.nodes, subs |-> c.subs, edges |-> c.edges]
  BY DEF Common
<1>9. c.edges \subseteq d.edges
  BY DEF Draft
<1> QED  BY <1>5, <1>6, <1>7, <1>8, <1>9

-----------------------------------------------------------------------------
(* The edits *)

IsBatch(b) == b = [open |-> b.open, g |-> b.g, made |-> b.made, ops |-> b.ops, cited |-> b.cited]

Stored(g) ==
    /\ g = [nodes |-> g.nodes, subs |-> g.subs, edges |-> g.edges]
    /\ IsFiniteSet(DOMAIN g.nodes)
    /\ \A id \in DOMAIN g.nodes : IsNode(g.nodes[id])

\* Requirement new is old, but for what may be changed in one: its memberships and, unless a
\* user or the system made it, its status.
StillSays(new, old) ==
    /\ new.kind = old.kind /\ new.says = old.says /\ new.refs = old.refs /\ new.by = old.by
    /\ Locked(old) => old.in \subseteq new.in /\ new.status = old.status

\* The requirements of draft d in graph g; those not there are common.
Kept(g, d, c) ==
    \A id \in DOMAIN d.nodes : Directive(d.nodes[id]) =>
        IF id \in DOMAIN g.nodes THEN StillSays(g.nodes[id], d.nodes[id]) ELSE id \in DOMAIN c.nodes
NoneNew(g, d) ==
    \A id \in DOMAIN g.nodes : Directive(g.nodes[id]) => id \in DOMAIN d.nodes /\ Directive(d.nodes[id])

Accepts(g, id) == IsFact(g.nodes[id]) /\ g.nodes[id].status = "accepted"
Evident(g, c, cites) ==
    \A id \in DOMAIN g.nodes \ DOMAIN c.nodes : Accepts(g, id) => id \in cites
Named(g, c) ==
    \A id \in DOMAIN g.nodes \ DOMAIN c.nodes : Accepts(g, id) => Files \in g.nodes[id].refs

Good(g, d, c, cites) == Stored(g) /\ Kept(g, d, c) /\ NoneNew(g, d) /\ Evident(g, c, cites)

\* What the model works on.
Workable ==
    /\ draft = Draft(sources, common)
    /\ Good(view, draft, common, cited) /\ Named(view, common) /\ Composable(common, view)

\* The batch so far: what is in it and not in the view was made in it, under identities
\* that are nowhere else.
Batched(b) ==
    /\ Good(b.g, draft, common, b.cited)
    /\ IsFiniteSet(b.made) /\ b.made \intersect (DOMAIN common.nodes \union DOMAIN view.nodes) = {}
    /\ DOMAIN b.g.nodes \subseteq DOMAIN view.nodes \union b.made

ResultRight ==
    IF HasDifferences(sources, common) THEN Workable /\ result = Composed(common, view)
                                       ELSE draft = common /\ result = common

Inv ==
    /\ sources \in Inputs
    /\ pc \in {"fixed", "organize", "done"}
    /\ IsBatch(batch) /\ batch.open \in BOOLEAN
    /\ pc = "fixed" => ~batch.open
    /\ pc # "fixed" => common = Common(sources)
    /\ pc = "organize" => /\ HasDifferences(sources, common) /\ Workable
                          /\ batch.open => Batched(batch)
    /\ pc = "done" => ResultRight

\* Putting facts in dispute changes their status only, and only where sources differ.
LEMMA DisputedIs ==
    ASSUME NEW c, NEW g, g = [nodes |-> g.nodes, subs |-> g.subs, edges |-> g.edges],
           \A id \in DOMAIN g.nodes : IsNode(g.nodes[id])
    PROVE  LET v == Disputed(c, g)
           IN  /\ v = [nodes |-> v.nodes, subs |-> v.subs, edges |-> v.edges]
               /\ v.subs = g.subs /\ v.edges = g.edges /\ DOMAIN v.nodes = DOMAIN g.nodes
               /\ \A id \in DOMAIN g.nodes :
                     LET new == v.nodes[id]
                         old == g.nodes[id]
                     IN  /\ IsNode(new)
                         /\ new.kind = old.kind /\ new.in = old.in /\ new.heir = old.heir
                         /\ id \in DOMAIN c.nodes => new = old
                         /\ ~IsFact(old) => new = old
                         /\ id \notin DOMAIN c.nodes /\ IsFact(old) => new.status # "accepted"
<1> DEFINE Worn(id) == id \notin DOMAIN c.nodes /\ IsFact(g.nodes[id])
                          /\ g.nodes[id].status \in {"", "accepted"}
           table == [id \in DOMAIN g.nodes |->
                        IF Worn(id) THEN [g.nodes[id] EXCEPT !.status = "disputed"] ELSE g.nodes[id]]
           v == Disputed(c, g)
<1>1. v = [nodes |-> table, subs |-> g.subs, edges |-> g.edges]
  <2>1. v = [g EXCEPT !.nodes = table]
    BY DEF Disputed
  <2> HIDE DEF table, v
  <2> QED  BY <2>1
<1>2. ASSUME NEW id \in DOMAIN g.nodes
      PROVE  LET new == table[id]
                 old == g.nodes[id]
             IN  /\ IsNode(new)
                 /\ new.kind = old.kind /\ new.in = old.in /\ new.heir = old.heir
                 /\ id \in DOMAIN c.nodes => new = old
                 /\ ~IsFact(old) => new = old
                 /\ id \notin DOMAIN c.nodes /\ IsFact(old) => new.status # "accepted"
  <2> DEFINE old == g.nodes[id]
             worn == [old EXCEPT !.status = "disputed"]
  <2>1. worn = [kind |-> old.kind, says |-> old.says, status |-> "disputed", in |-> old.in,
                refs |-> old.refs, by |-> old.by, heir |-> old.heir]
    BY DEF IsNode
  <2> HIDE DEF worn
  <2>2. /\ worn.kind = old.kind /\ worn.says = old.says /\ worn.status = "disputed"
        /\ worn.in = old.in /\ worn.refs = old.refs /\ worn.by = old.by /\ worn.heir = old.heir
    BY <2>1
  <2>3. IsNode(worn)
    BY <2>1, <2>2 DEF IsNode
  <2>4. table[id] = IF Worn(id) THEN worn ELSE old
    BY DEF worn
  <2> HIDE DEF table
  <2>5. CASE Worn(id)
    BY <2>2, <2>3, <2>4, <2>5
  <2>6. CASE ~Worn(id)
    BY <2>4, <2>6
  <2> QED  BY <2>5, <2>6
<1>3. DOMAIN table = DOMAIN g.nodes
  OBVIOUS
<1> HIDE DEF table, v
<1>4. v.nodes = table /\ v.subs = g.subs /\ v.edges = g.edges
  BY <1>1
<1>5. v = [nodes |-> v.nodes, subs |-> v.subs, edges |-> v.edges]
  BY <1>1, <1>4
<1> QED  BY <1>2, <1>3, <1>4, <1>5 DEF v

\* A node is itself with its own status and successor.
LEMMA OwnStatus ==
    ASSUME NEW x, IsNode(x)
    PROVE  [x EXCEPT !.status = x.status, !.heir = x.heir] = x
BY DEF IsNode

\* Organizing begins with a view that composes.
LEMMA Begins ==
    ASSUME NEW ss \in Inputs
    PROVE  LET c == Common(ss)
               d == Draft(ss, c)
               v == Disputed(c, Scope(c, d))
           IN  /\ \A cites : Good(v, d, c, cites)
               /\ Named(v, c) /\ Composable(c, v)
<1> DEFINE c == Common(ss)
           d == Draft(ss, c)
           g == Scope(c, d)
           v == Disputed(c, g)
<1>1. /\ IsFiniteSet(DOMAIN d.nodes)
      /\ \A id \in DOMAIN d.nodes : IsNode(d.nodes[id])
      /\ \A s \in DOMAIN c.subs : s \in DOMAIN d.subs /\ d.subs[s] = c.subs[s]
      /\ c.edges \subseteq d.edges
  BY DraftStored
<1>2. /\ \A id \in DOMAIN c.nodes : id \in DOMAIN d.nodes /\ d.nodes[id] = c.nodes[id]
      /\ Valid(d)
  BY DraftIs, DraftValid
<1> HIDE DEF c, d
<1>3. /\ g = [nodes |-> g.nodes, subs |-> g.subs, edges |-> g.edges]
      /\ DOMAIN g.nodes \subseteq DOMAIN d.nodes /\ DOMAIN g.subs \subseteq DOMAIN d.subs
      /\ \A id \in DOMAIN g.nodes : g.nodes[id] = d.nodes[id]
      /\ \A s \in DOMAIN g.subs : g.subs[s] = d.subs[s]
      /\ DOMAIN d.nodes \subseteq DOMAIN g.nodes \union DOMAIN c.nodes
      /\ DOMAIN d.subs \subseteq DOMAIN g.subs \union DOMAIN c.subs
      /\ g.edges \subseteq d.edges /\ d.edges \subseteq g.edges \union c.edges
  BY ScopeIs
<1> HIDE DEF g
<1>4. \A id \in DOMAIN g.nodes : IsNode(g.nodes[id])
  BY <1>1, <1>3
<1>5. /\ v = [nodes |-> v.nodes, subs |-> v.subs, edges |-> v.edges]
      /\ v.subs = g.subs /\ v.edges = g.edges /\ DOMAIN v.nodes = DOMAIN g.nodes
      /\ \A id \in DOMAIN g.nodes :
            /\ IsNode(v.nodes[id])
            /\ v.nodes[id].kind = g.nodes[id].kind /\ v.nodes[id].in = g.nodes[id].in
            /\ v.nodes[id].heir = g.nodes[id].heir
            /\ id \in DOMAIN c.nodes => v.nodes[id] = g.nodes[id]
            /\ ~IsFact(g.nodes[id]) => v.nodes[id] = g.nodes[id]
            /\ id \notin DOMAIN c.nodes /\ IsFact(g.nodes[id]) => v.nodes[id].status # "accepted"
  BY <1>3, <1>4, DisputedIs
<1> HIDE DEF v
<1>6. Stored(v)
  <2>1. IsFiniteSet(DOMAIN v.nodes)
    BY <1>1, <1>3, <1>5, FS_Subset
  <2> QED  BY <2>1, <1>5 DEF Stored
<1>7. Kept(v, d, c)
  <2> SUFFICES ASSUME NEW id \in DOMAIN d.nodes, Directive(d.nodes[id])
               PROVE  IF id \in DOMAIN v.nodes THEN StillSays(v.nodes[id], d.nodes[id])
                                               ELSE id \in DOMAIN c.nodes
    BY DEF Kept
  <2>1. CASE id \in DOMAIN v.nodes
    <3>1. ~IsFact(g.nodes[id]) /\ g.nodes[id] = d.nodes[id]
      BY <2>1, <1>3, <1>5 DEF Directive, IsFact
    <3>2. v.nodes[id] = d.nodes[id]
      BY <3>1, <2>1, <1>5
    <3> QED  BY <3>2, <2>1 DEF StillSays
  <2>2. CASE id \notin DOMAIN v.nodes
    BY <2>2, <1>3, <1>5
  <2> QED  BY <2>1, <2>2
<1>8. NoneNew(v, d)
  BY <1>3, <1>5 DEF NoneNew, Directive
<1>9. \A id \in DOMAIN v.nodes \ DOMAIN c.nodes : ~Accepts(v, id)
  BY <1>5 DEF Accepts, IsFact
<1>10. (\A cites : Good(v, d, c, cites)) /\ Named(v, c)
  BY <1>6, <1>7, <1>8, <1>9 DEF Good, Evident, Named
<1>11. Valid(Composed(c, v))
  <2> DEFINE r == Composed(c, v)
  <2>1. /\ r.edges = c.edges \union v.edges
        /\ DOMAIN r.nodes = DOMAIN v.nodes \union DOMAIN c.nodes
        /\ DOMAIN r.subs = DOMAIN v.subs \union DOMAIN c.subs
        /\ \A id \in DOMAIN r.nodes :
              r.nodes[id] = IF id \in DOMAIN v.nodes THEN v.nodes[id] ELSE c.nodes[id]
    BY ComposedIs
  <2> HIDE DEF r
  <2>2. DOMAIN r.nodes = DOMAIN d.nodes /\ DOMAIN r.subs = DOMAIN d.subs /\ r.edges = d.edges
    BY <2>1, <1>1, <1>2, <1>3, <1>5
  <2>3. \A id \in DOMAIN d.nodes :
           d.nodes[id].in = r.nodes[id].in /\ d.nodes[id].heir = r.nodes[id].heir
    BY <2>1, <2>2, <1>2, <1>3, <1>5
  <2>4. SameShape(d, r)
    BY <2>2, <2>3 DEF SameShape
  <2> QED  BY <2>4, <1>2, ShapeIsEnough DEF r
<1>12. \A id \in DOMAIN v.nodes \intersect DOMAIN c.nodes : v.nodes[id] = c.nodes[id]
  BY <1>2, <1>3, <1>5
<1>13. \A id \in DOMAIN v.nodes \intersect DOMAIN c.nodes :
          [v.nodes[id] EXCEPT !.status = c.nodes[id].status, !.heir = c.nodes[id].heir] = c.nodes[id]
  <2> SUFFICES ASSUME NEW id \in DOMAIN v.nodes \intersect DOMAIN c.nodes
               PROVE  [v.nodes[id] EXCEPT !.status = c.nodes[id].status, !.heir = c.nodes[id].heir]
                         = c.nodes[id]
    OBVIOUS
  <2> DEFINE x == c.nodes[id]
  <2>1. v.nodes[id] = x /\ IsNode(x)
    BY <1>12, <1>1, <1>2
  <2>2. [x EXCEPT !.status = x.status, !.heir = x.heir] = x
    <3> HIDE DEF x
    <3> QED  BY <2>1, OwnStatus
  <2> HIDE DEF x
  <2>3. [v.nodes[id] EXCEPT !.status = x.status, !.heir = x.heir] = x
    BY <2>1, <2>2
  <2> QED  BY <2>3 DEF x
<1>14. \A s \in DOMAIN v.subs \intersect DOMAIN c.subs : v.subs[s] = c.subs[s]
  BY <1>1, <1>3, <1>5
<1>15. Composable(c, v)
  BY <1>11, <1>12, <1>13, <1>14, Zenon DEF Composable
<1> QED  BY <1>10, <1>15 DEF v, g, c, d

-----------------------------------------------------------------------------
(* One operation of a batch *)

\* One node of a good graph changes: what matters is the new one.
LEMMA NodeChanges ==
    ASSUME NEW g, NEW h, NEW d, NEW c, NEW cites, NEW more, NEW id,
           Good(g, d, c, cites),
           h = [nodes |-> h.nodes, subs |-> h.subs, edges |-> h.edges],
           DOMAIN h.nodes = DOMAIN g.nodes \union {id},
           \A x \in DOMAIN g.nodes : x # id => h.nodes[x] = g.nodes[x],
           IsNode(h.nodes[id]),
           id \in DOMAIN d.nodes /\ Directive(d.nodes[id]) => StillSays(h.nodes[id], d.nodes[id]),
           Directive(h.nodes[id]) => id \in DOMAIN d.nodes /\ Directive(d.nodes[id]),
           \A x \in cites : x # id => x \in more,
           id \notin DOMAIN c.nodes /\ Accepts(h, id) => id \in more
    PROVE  Good(h, d, c, more)
<1>1. Stored(h)
  <2>1. IsFiniteSet(DOMAIN h.nodes)
    BY FS_AddElement DEF Good, Stored
  <2>2. \A x \in DOMAIN h.nodes : IsNode(h.nodes[x])
    BY DEF Good, Stored
  <2> QED  BY <2>1, <2>2 DEF Stored
<1>2. Kept(h, d, c)
  BY DEF Good, Kept
<1>3. NoneNew(h, d)
  BY DEF Good, NoneNew
<1>4. Evident(h, c, more)
  BY DEF Good, Evident, Accepts
<1> QED  BY <1>1, <1>2, <1>3, <1>4 DEF Good

\* A node goes that is no requirement.
LEMMA NodeGoes ==
    ASSUME NEW g, NEW d, NEW c, NEW cites, NEW id, Good(g, d, c, cites),
           ~(id \in DOMAIN d.nodes /\ Directive(d.nodes[id]))
    PROVE  Good(Without(g, id), d, c, cites) /\ DOMAIN Without(g, id).nodes \subseteq DOMAIN g.nodes
<1> DEFINE h == Without(g, id)
           E == {e \in g.edges : e.to # id /\ e.from # Node(id)}
<1>1. h = [nodes |-> Only(g.nodes, DOMAIN g.nodes \ {id}), subs |-> g.subs, edges |-> E]
  <2>1. h = [g EXCEPT !.nodes = Only(g.nodes, DOMAIN g.nodes \ {id}), !.edges = E]
    BY DEF Without
  <2>2. g = [nodes |-> g.nodes, subs |-> g.subs, edges |-> g.edges]
    BY DEF Good, Stored
  <2> HIDE DEF E, h
  <2> QED  BY <2>1, <2>2
<1> HIDE DEF E, h
<1>2. /\ h.nodes = Only(g.nodes, DOMAIN g.nodes \ {id}) /\ h.subs = g.subs /\ h.edges = E
      /\ h = [nodes |-> h.nodes, subs |-> h.subs, edges |-> h.edges]
  BY <1>1
<1>3. DOMAIN h.nodes = DOMAIN g.nodes \ {id} /\ \A x \in DOMAIN h.nodes : h.nodes[x] = g.nodes[x]
  BY <1>2 DEF Only
<1>4. Stored(h)
  <2>1. IsFiniteSet(DOMAIN h.nodes)
    BY <1>3, FS_Subset DEF Good, Stored
  <2> QED  BY <2>1, <1>2, <1>3 DEF Good, Stored
<1>5. Kept(h, d, c)
  BY <1>3 DEF Good, Kept
<1>6. NoneNew(h, d)
  BY <1>3 DEF Good, NoneNew
<1>7. Evident(h, c, cites)
  BY <1>3 DEF Good, Evident, Accepts
<1>8. Good(h, d, c, cites) /\ DOMAIN h.nodes \subseteq DOMAIN g.nodes
  BY <1>3, <1>4, <1>5, <1>6, <1>7 DEF Good
<1> QED  BY <1>8 DEF h

\* What an operation writes to a node, field by field.
LEMMA FieldsAre ==
    ASSUME NEW op, NEW node, IsNode(node)
    PROVE  LET new == Fields(op, node)
           IN  /\ IsNode(new)
               /\ new.kind = IF op.do = "update" /\ op.kind # "" THEN op.kind ELSE node.kind
               /\ new.says = IF op.do = "update" THEN op.says ELSE node.says
               /\ new.status = IF op.status # "" THEN op.status ELSE node.status
               /\ new.in = node.in /\ new.refs = node.refs /\ new.by = node.by
<1> DEFINE k == IF op.do = "update" /\ op.kind # "" THEN op.kind ELSE node.kind
           s == IF op.do = "update" THEN op.says ELSE node.says
           t == IF op.status # "" THEN op.status ELSE node.status
           o == CASE op.do = "status" -> IF op.status = "superseded" THEN op.heir ELSE NoId
                  [] op.do = "update" /\ op.heir # NoId -> op.heir
                  [] OTHER -> node.heir
           new == Fields(op, node)
<1>1. new = [node EXCEPT !.says = s, !.kind = k, !.status = t, !.heir = o]
  BY DEF Fields
<1> HIDE DEF k, s, t, o, new
<1>2. new = [kind |-> k, says |-> s, status |-> t, in |-> node.in, refs |-> node.refs,
             by |-> node.by, heir |-> o]
  BY <1>1 DEF IsNode
<1>3. /\ new.kind = k /\ new.says = s /\ new.status = t /\ new.in = node.in
      /\ new.refs = node.refs /\ new.by = node.by /\ new.heir = o
  BY <1>2
<1>4. IsNode(new)
  BY <1>2, <1>3 DEF IsNode
<1> QED  BY <1>3, <1>4 DEF k, s, t, new

\* A node with other memberships, field by field.
LEMMA MemberOf ==
    ASSUME NEW node, IsNode(node), NEW S
    PROVE  LET new == [node EXCEPT !.in = S]
           IN  /\ IsNode(new) /\ SameText(new, node)
               /\ new.in = S /\ new.refs = node.refs /\ new.heir = node.heir
<1> DEFINE new == [node EXCEPT !.in = S]
<1>1. new = [kind |-> node.kind, says |-> node.says, status |-> node.status, in |-> S,
             refs |-> node.refs, by |-> node.by, heir |-> node.heir]
  BY DEF IsNode
<1> HIDE DEF new
<1>2. /\ new.kind = node.kind /\ new.says = node.says /\ new.status = node.status /\ new.in = S
      /\ new.refs = node.refs /\ new.by = node.by /\ new.heir = node.heir
  BY <1>1
<1>3. IsNode(new)
  BY <1>1, <1>2 DEF IsNode
<1> QED  BY <1>2, <1>3 DEF SameText, new

\* A node of a graph replaced by another.
LEMMA PutNode ==
    ASSUME NEW g, g = [nodes |-> g.nodes, subs |-> g.subs, edges |-> g.edges],
           NEW id \in DOMAIN g.nodes, NEW new, NEW h, h = [g EXCEPT !.nodes[id] = new]
    PROVE  /\ h = [nodes |-> h.nodes, subs |-> h.subs, edges |-> h.edges]
           /\ DOMAIN h.nodes = DOMAIN g.nodes /\ h.nodes[id] = new
           /\ \A x \in DOMAIN g.nodes : x # id => h.nodes[x] = g.nodes[x]
<1> DEFINE table == [g.nodes EXCEPT ![id] = new]
<1>1. h = [nodes |-> table, subs |-> g.subs, edges |-> g.edges]
  OBVIOUS
<1>2. /\ DOMAIN table = DOMAIN g.nodes /\ table[id] = new
      /\ \A x \in DOMAIN g.nodes : x # id => table[x] = g.nodes[x]
  OBVIOUS
<1> HIDE DEF table
<1>3. h.nodes = table /\ h.subs = g.subs /\ h.edges = g.edges
  BY <1>1
<1> QED  BY <1>1, <1>2, <1>3

\* What of a node an operation may touch, in a batch that is good so far.
LEMMA ChangeKeeps ==
    ASSUME NEW b, NEW op \in Edits, NEW id \in DOMAIN view.nodes, id \in DOMAIN b.g.nodes,
           Kept(view, draft, common), NoneNew(view, draft),
           NEW cites, Good(b.g, draft, common, cites),
           op.do \notin {"create", "describe"},
           ~Invents(op, Directive(view.nodes[id])), Backed(op, b.g.nodes[id]),
           Allowed(op, id, view.nodes[id]), op.do = "status" => op.status # "",
           NEW more, more = IF op.do \notin {"create", "update", "status"} THEN cites
                            ELSE IF op.cites THEN cites \union {id} ELSE cites \ {id}
    PROVE  /\ Good(Changed(b.g, op, id), draft, common, more)
           /\ DOMAIN Changed(b.g, op, id).nodes \subseteq DOMAIN b.g.nodes
<1> DEFINE g == b.g
           h == Changed(g, op, id)
           node == g.nodes[id]
           Asked == id \in DOMAIN draft.nodes /\ Directive(draft.nodes[id])
           was == draft.nodes[id]
<1>1. op.do \in {"update", "status", "delete", "attach", "detach"}
  BY InputAssumption
<1>2. IsNode(node) /\ g = [nodes |-> g.nodes, subs |-> g.subs, edges |-> g.edges]
  BY DEF Good, Stored
<1>3. Asked <=> Directive(view.nodes[id])
  BY DEF Kept, NoneNew, StillSays, Directive
<1>4. Asked => StillSays(node, was)
  BY DEF Good, Kept
<1>5. Directive(node) => Asked
  BY DEF Good, NoneNew
<1>6. Asked => op.do \notin {"update", "delete"} /\ ~Locked(was)
  <2>1. Asked => was.by = view.nodes[id].by
    BY DEF Kept, StillSays
  <2> QED  BY <2>1, <1>3 DEF Allowed, Locked
<1>11. Good(g, draft, common, cites)
  OBVIOUS
<1>7. CASE op.do = "delete"
  <2>1. h = Without(g, id) /\ more = cites
    BY <1>7 DEF Changed
  <2>2. ~Asked
    BY <1>6, <1>7
  <2>3. Good(Without(g, id), draft, common, cites) /\ DOMAIN Without(g, id).nodes \subseteq DOMAIN g.nodes
    <3> HIDE DEF g
    <3> QED  BY <2>2, <1>11, NodeGoes
  <2> HIDE DEF h
  <2>4. Good(h, draft, common, more) /\ DOMAIN h.nodes \subseteq DOMAIN g.nodes
    BY <2>1, <2>3
  <2> QED  BY <2>4 DEF h
<1>8. ASSUME NEW new, IsNode(new), h = [g EXCEPT !.nodes[id] = new],
             Asked => StillSays(new, was), Directive(new) => Asked,
             id \notin DOMAIN common.nodes /\ IsFact(new) /\ new.status = "accepted" => id \in more
      PROVE  Good(h, draft, common, more) /\ DOMAIN h.nodes \subseteq DOMAIN g.nodes
  <2> HIDE DEF h
  <2>1. /\ h = [nodes |-> h.nodes, subs |-> h.subs, edges |-> h.edges]
        /\ DOMAIN h.nodes = DOMAIN g.nodes /\ h.nodes[id] = new
        /\ \A x \in DOMAIN g.nodes : x # id => h.nodes[x] = g.nodes[x]
    BY <1>2, <1>8, PutNode
  <2>2. \A x \in cites : x # id => x \in more
    OBVIOUS
  <2>3. Accepts(h, id) <=> IsFact(new) /\ new.status = "accepted"
    BY <2>1 DEF Accepts
  <2>4. DOMAIN h.nodes = DOMAIN g.nodes \union {id}
    BY <2>1
  <2>5. IsNode(h.nodes[id])
    BY <2>1, <1>8
  <2>7. id \in DOMAIN draft.nodes /\ Directive(draft.nodes[id]) => StillSays(h.nodes[id], draft.nodes[id])
    BY <2>1, <1>8
  <2>8. Directive(h.nodes[id]) => id \in DOMAIN draft.nodes /\ Directive(draft.nodes[id])
    BY <2>1, <1>8
  <2>9. id \notin DOMAIN common.nodes /\ Accepts(h, id) => id \in more
    BY <2>3, <1>8
  <2>6. Good(h, draft, common, more)
    <3> HIDE DEF g
    <3> QED  BY <2>1, <2>2, <2>4, <2>5, <2>7, <2>8, <2>9, <1>11, NodeChanges, ZenonT(60)
  <2> QED  BY <2>1, <2>6
<1>9. CASE op.do = "attach" \/ op.do = "detach"
  <2> DEFINE S == IF op.do = "attach" THEN node.in \union KnownSubs(g, op.in) ELSE node.in \ op.in
             new == [node EXCEPT !.in = S]
  <2>1. h = [g EXCEPT !.nodes[id] = new]
    <3>1. h = [g EXCEPT !.nodes[id].in = S]
      BY <1>9 DEF Changed
    <3> HIDE DEF S
    <3> QED  BY <3>1
  <2>2. IsNode(new) /\ SameText(new, node) /\ new.refs = node.refs
    <3> HIDE DEF S, node
    <3> QED  BY <1>2, MemberOf DEF node
  <2>3. more = cites
    BY <1>9
  <2> HIDE DEF new, h
  <2>4. Asked => StillSays(new, was)
    BY <1>4, <1>6, <2>2 DEF StillSays, SameText
  <2>5. Directive(new) => Asked
    BY <1>5, <2>2 DEF Directive, SameText
  <2>6. id \notin DOMAIN common.nodes /\ IsFact(new) /\ new.status = "accepted" => id \in more
    BY <2>2, <2>3 DEF Good, Evident, Accepts, IsFact, SameText
  <2> QED  BY <1>8, <2>1, <2>2, <2>4, <2>5, <2>6 DEF h
<1>10. CASE op.do = "update" \/ op.do = "status"
  <2> DEFINE new == Fields(op, node)
  <2>1. h = [g EXCEPT !.nodes[id] = new]
    BY <1>10 DEF Changed
  <2>2. /\ IsNode(new)
        /\ new.kind = IF op.do = "update" /\ op.kind # "" THEN op.kind ELSE node.kind
        /\ new.says = IF op.do = "update" THEN op.says ELSE node.says
        /\ new.status = IF op.status # "" THEN op.status ELSE node.status
        /\ new.in = node.in /\ new.refs = node.refs /\ new.by = node.by
    <3> HIDE DEF node
    <3> QED  BY <1>2, FieldsAre, ZenonT(60) DEF node
  <2> HIDE DEF new, h
  <2>4. Asked => StillSays(new, was)
    <3> HIDE DEF node, was, Asked
    <3> QED  BY <1>4, <1>6, <2>2 DEF StillSays
  <2>5. Directive(new) => Asked
    BY <1>3, <1>5, <2>2 DEF Directive, Invents
  <2>6. IsFact(new) /\ new.status = "accepted" => id \in more
    <3> SUFFICES ASSUME IsFact(new), new.status = "accepted" PROVE op.cites
      BY <1>10
    <3>1. CASE op.do = "status"
      <4>1. op.status = "accepted"
        BY <2>2, <3>1
      <4> QED  BY <4>1, <3>1 DEF Backed
    <3>2. CASE op.do = "update"
      <4>1. op.status = "accepted" \/ op.status = ""
        BY <2>2
      <4>2. op.kind \notin {"directive", "hypothesis"}
        BY <2>2, <3>2 DEF IsFact
      <4> QED  BY <4>1, <4>2, <3>2 DEF Backed
    <3> QED  BY <1>10, <3>1, <3>2
  <2> QED  BY <1>8, <2>1, <2>2, <2>4, <2>5, <2>6 DEF h
<1> QED  BY <1>1, <1>7, <1>9, <1>10

\* The identity of a new node is not one that is reserved.
LEMMA FreshIsNew ==
    ASSUME NEW taken, IsFiniteSet(taken), IsFiniteSet(DOMAIN common.nodes), IsFiniteSet(DOMAIN view.nodes)
    PROVE  Fresh(taken) \notin DOMAIN common.nodes \union DOMAIN view.nodes \union taken
<1> DEFINE used == DOMAIN common.nodes \union DOMAIN view.nodes \union taken
           size == Cardinality(used) + 1
           Id(k) == <<"mem", k>>
           Unused == {k \in 1 .. size : Id(k) \notin used}
<1>1. IsFiniteSet(used) /\ Cardinality(used) \in Nat
  <2>1. IsFiniteSet(DOMAIN common.nodes \union DOMAIN view.nodes)
    BY FS_Union
  <2>2. IsFiniteSet(used)
    BY <2>1, FS_Union
  <2> HIDE DEF used
  <2> QED  BY <2>2, FS_CardinalityType
<1>2. Unused # {}
  <2> SUFFICES ASSUME Unused = {} PROVE FALSE
    OBVIOUS
  <2> DEFINE f == [k \in 1 .. size |-> Id(k)]
  <2>1. f \in Injection(1 .. size, used)
    <3>1. f \in [1 .. size -> used]
      OBVIOUS
    <3>2. \A k, l \in 1 .. size : f[k] = f[l] => k = l
      OBVIOUS
    <3> QED  BY <3>1, <3>2 DEF Injection, IsInjective
  <2>2. IsFiniteSet(1 .. size) /\ Cardinality(1 .. size) = size
    <3>1. size \in Nat /\ size > 0
      BY <1>1
    <3> HIDE DEF size
    <3> QED  BY <3>1, FS_Interval
  <2>3. Cardinality(1 .. size) <= Cardinality(used)
    <3> HIDE DEF f, used, size
    <3> QED  BY <1>1, <2>1, FS_Injection
  <2> HIDE DEF used
  <2> QED  BY <1>1, <2>2, <2>3
<1>3. Unused \in SUBSET Nat
  OBVIOUS
<1>4. Min(Unused) \in Unused
  <2> HIDE DEF Unused
  <2> QED  BY <1>2, <1>3, MinIsLeast
<1>5. Fresh(taken) = Id(Min(Unused))
  BY DEF Fresh
<1>6. Id(Min(Unused)) \notin used
  <2> DEFINE k == Min(Unused)
  <2>1. k \in Unused
    BY <1>4
  <2> HIDE DEF k
  <2>2. Id(k) \notin used
    BY <2>1
  <2> QED  BY <2>2 DEF k
<1> QED  BY <1>5, <1>6

\* A new node is no requirement, and accepted only on evidence.
LEMMA CreateKeeps ==
    ASSUME NEW g, NEW op, NEW id, NEW cites,
           Kept(view, draft, common), Good(g, draft, common, cites),
           op.do = "create", ~Invents(op, FALSE), Backed(op, op),
           id \notin DOMAIN common.nodes, id \notin DOMAIN view.nodes, id \notin DOMAIN g.nodes,
           NEW more, more = IF op.cites THEN cites \union {id} ELSE cites \ {id}
    PROVE  /\ Good(WithMemory(g, id, Created(op)), draft, common, more)
           /\ DOMAIN WithMemory(g, id, Created(op)).nodes \subseteq DOMAIN g.nodes \union {id}
<1> DEFINE made == Created(op)
           S == KnownSubs(g, made.in)
           new == [made EXCEPT !.in = S]
           one == [x \in {id} |-> new]
           h == WithMemory(g, id, made)
<1>1. /\ IsNode(made) /\ made.kind = op.kind
      /\ made.status = IF op.status = "" THEN "accepted" ELSE op.status
  BY DEF Created, IsNode
<1> HIDE DEF made
<1>2. IsNode(new) /\ SameText(new, made)
  <2> HIDE DEF S
  <2> QED  BY <1>1, MemberOf
<1>3. h = [g EXCEPT !.nodes = Over(g.nodes, one)]
  BY DEF WithMemory
<1> HIDE DEF new, h
<1>4. DOMAIN one = {id} /\ one[id] = new
  OBVIOUS
<1> HIDE DEF one
<1>5. h = [nodes |-> Over(g.nodes, one), subs |-> g.subs, edges |-> g.edges]
  BY <1>3 DEF Good, Stored
<1>6. /\ h = [nodes |-> h.nodes, subs |-> h.subs, edges |-> h.edges]
      /\ h.nodes = Over(g.nodes, one)
  BY <1>5
<1>7. /\ DOMAIN h.nodes = DOMAIN g.nodes \union {id} /\ h.nodes[id] = new
      /\ \A x \in DOMAIN g.nodes : x # id => h.nodes[x] = g.nodes[x]
  BY <1>4, <1>6 DEF Over
<1>8. ~(id \in DOMAIN draft.nodes /\ Directive(draft.nodes[id]))
  BY DEF Kept
<1>9. ~Directive(h.nodes[id])
  BY <1>1, <1>2, <1>7 DEF Directive, SameText, Invents
<1>10. id \notin DOMAIN common.nodes /\ Accepts(h, id) => id \in more
  <2> SUFFICES ASSUME IsFact(new), new.status = "accepted" PROVE op.cites
    BY <1>7 DEF Accepts
  <2>1. op.kind \notin {"directive", "hypothesis"}
    BY <1>1, <1>2 DEF IsFact, SameText
  <2>2. op.status = "" \/ op.status = "accepted"
    BY <1>1, <1>2 DEF SameText
  <2> QED  BY <2>1, <2>2 DEF Backed
<1>11. IsNode(h.nodes[id]) /\ \A x \in cites : x # id => x \in more
  BY <1>2, <1>7
<1>12. Good(h, draft, common, more)
  BY <1>6, <1>7, <1>8, <1>9, <1>10, <1>11, NodeChanges
<1> QED  BY <1>7, <1>12 DEF h, made

\* A description says nothing of the nodes.
LEMMA DescribeKeeps ==
    ASSUME NEW g, NEW d, NEW c, NEW cites, NEW s, NEW sub, Good(g, d, c, cites)
    PROVE  /\ Good(WithSubgraph(g, s, sub), d, c, cites)
           /\ WithSubgraph(g, s, sub).nodes = g.nodes
<1> DEFINE T == Over([x \in {s} |-> sub], g.subs)
           h == WithSubgraph(g, s, sub)
<1>1. h = [g EXCEPT !.subs = T]
  BY DEF WithSubgraph
<1> HIDE DEF h, T
<1>2. h = [nodes |-> g.nodes, subs |-> T, edges |-> g.edges]
  BY <1>1 DEF Good, Stored
<1>3. h.nodes = g.nodes /\ h = [nodes |-> h.nodes, subs |-> h.subs, edges |-> h.edges]
  BY <1>2
<1>4. Good(h, d, c, cites)
  BY <1>3 DEF Good, Stored, Kept, NoneNew, Evident, Accepts
<1> QED  BY <1>3, <1>4 DEF h

\* memory_add_to_subgraph adds a membership.
LEMMA AddKeeps ==
    ASSUME NEW g, NEW d, NEW c, NEW cites, NEW s, NEW id \in DOMAIN g.nodes,
           s \notin g.nodes[id].in, Good(g, d, c, cites)
    PROVE  LET h == WithNodesInSubgraph(g, s, {id})
           IN  Good(h, d, c, cites) /\ DOMAIN h.nodes \subseteq DOMAIN g.nodes
<1> DEFINE new == [g.nodes[id] EXCEPT !.in = g.nodes[id].in \union {s}]
           table == [x \in DOMAIN g.nodes |-> IF x = id THEN new ELSE g.nodes[x]]
           T == Over(g.subs, [x \in {s} |-> [kind |-> "", text |-> ""]])
           h == WithNodesInSubgraph(g, s, {id})
<1>1. h = [nodes |-> table, subs |-> T, edges |-> g.edges]
  <2> DEFINE N == {x \in {id} \intersect DOMAIN g.nodes : s \notin g.nodes[x].in}
  <2>1. N = {id}
    OBVIOUS
  <2>2. h = IF N = {} THEN g
            ELSE [nodes |-> [x \in DOMAIN g.nodes |->
                                IF x \in N THEN [g.nodes[x] EXCEPT !.in = @ \union {s}] ELSE g.nodes[x]],
                  subs |-> T, edges |-> g.edges]
    BY DEF WithNodesInSubgraph
  <2> HIDE DEF N, T, h
  <2>3. h = [nodes |-> [x \in DOMAIN g.nodes |->
                           IF x \in N THEN [g.nodes[x] EXCEPT !.in = @ \union {s}] ELSE g.nodes[x]],
             subs |-> T, edges |-> g.edges]
    BY <2>1, <2>2
  <2>4. [x \in DOMAIN g.nodes |->
            IF x \in N THEN [g.nodes[x] EXCEPT !.in = @ \union {s}] ELSE g.nodes[x]] = table
    BY <2>1
  <2> HIDE DEF table
  <2> QED  BY <2>3, <2>4
<1>2. IsNode(g.nodes[id])
  BY DEF Good, Stored
<1>3. /\ IsNode(new) /\ SameText(new, g.nodes[id])
      /\ new.refs = g.nodes[id].refs /\ new.in = g.nodes[id].in \union {s}
  BY <1>2, MemberOf
<1> HIDE DEF new, h
<1>4. DOMAIN table = DOMAIN g.nodes /\ table[id] = new /\ \A x \in DOMAIN g.nodes : x # id => table[x] = g.nodes[x]
  OBVIOUS
<1> HIDE DEF table
<1>5. h.nodes = table /\ h = [nodes |-> h.nodes, subs |-> h.subs, edges |-> h.edges]
  BY <1>1
<1>6. DOMAIN h.nodes = DOMAIN g.nodes \union {id} /\ h.nodes[id] = new
  BY <1>4, <1>5
<1>7. id \in DOMAIN d.nodes /\ Directive(d.nodes[id]) => StillSays(h.nodes[id], d.nodes[id])
  <2> SUFFICES ASSUME id \in DOMAIN d.nodes, Directive(d.nodes[id]) PROVE StillSays(new, d.nodes[id])
    BY <1>6
  <2>1. StillSays(g.nodes[id], d.nodes[id])
    BY DEF Good, Kept
  <2> QED  BY <2>1, <1>3 DEF StillSays, SameText
<1>8. Directive(h.nodes[id]) => id \in DOMAIN d.nodes /\ Directive(d.nodes[id])
  BY <1>3, <1>6 DEF Good, NoneNew, Directive, SameText
<1>9. id \notin DOMAIN c.nodes /\ Accepts(h, id) => id \in cites
  BY <1>3, <1>6 DEF Good, Evident, Accepts, IsFact, SameText
<1>10. \A x \in DOMAIN g.nodes : x # id => h.nodes[x] = g.nodes[x]
  BY <1>4, <1>5
<1>11. IsNode(h.nodes[id])
  BY <1>3, <1>6
<1>12. Good(h, d, c, cites)
  BY <1>5, <1>6, <1>7, <1>8, <1>9, <1>10, <1>11, NodeChanges
<1>13. DOMAIN h.nodes \subseteq DOMAIN g.nodes
  BY <1>6
<1> QED  BY <1>12, <1>13 DEF h

\* A node with other references, field by field.
LEMMA RefsOf ==
    ASSUME NEW node, IsNode(node), NEW R
    PROVE  LET new == [node EXCEPT !.refs = R]
           IN  /\ IsNode(new) /\ SameText(new, node)
               /\ new.in = node.in /\ new.refs = R /\ new.heir = node.heir
<1> DEFINE new == [node EXCEPT !.refs = R]
<1>1. new = [kind |-> node.kind, says |-> node.says, status |-> node.status, in |-> node.in,
             refs |-> R, by |-> node.by, heir |-> node.heir]
  BY DEF IsNode
<1> HIDE DEF new
<1>2. /\ new.kind = node.kind /\ new.says = node.says /\ new.status = node.status
      /\ new.in = node.in /\ new.refs = R /\ new.by = node.by /\ new.heir = node.heir
  BY <1>1
<1>3. IsNode(new)
  BY <1>1, <1>2 DEF IsNode
<1> QED  BY <1>2, <1>3 DEF SameText, new

\* What commit stores is what was composed, with its sources.
LEMMA SourcedIs ==
    ASSUME NEW g, Stored(g)
    PROVE  LET h == Sourced(g)
           IN  /\ h = [nodes |-> h.nodes, subs |-> h.subs, edges |-> h.edges]
               /\ h.subs = g.subs /\ h.edges = g.edges /\ DOMAIN h.nodes = DOMAIN g.nodes
               /\ \A id \in DOMAIN g.nodes :
                     /\ IsNode(h.nodes[id]) /\ SameText(h.nodes[id], g.nodes[id])
                     /\ h.nodes[id].in = g.nodes[id].in /\ h.nodes[id].heir = g.nodes[id].heir
                     /\ id \in DOMAIN common.nodes => h.nodes[id] = g.nodes[id]
                     /\ id \in DOMAIN view.nodes /\ ~IsFact(g.nodes[id]) =>
                           h.nodes[id].refs = g.nodes[id].refs
                     /\ id \notin DOMAIN common.nodes /\ Accepts(g, id) => Files \in h.nodes[id].refs
<1> DEFINE R(id) == (IF id \in DOMAIN view.nodes THEN g.nodes[id].refs ELSE {Ref(i) : i \in DOMAIN sources})
                       \union (IF IsFact(g.nodes[id]) /\ g.nodes[id].status = "accepted" THEN {Files} ELSE {})
           table == [id \in DOMAIN g.nodes |->
                        IF id \in DOMAIN common.nodes THEN g.nodes[id]
                        ELSE [g.nodes[id] EXCEPT !.refs = R(id)]]
           h == Sourced(g)
<1>1. h = [nodes |-> table, subs |-> g.subs, edges |-> g.edges]
  <2>1. h = [g EXCEPT !.nodes = table]
    BY DEF Sourced
  <2> HIDE DEF table, h
  <2> QED  BY <2>1 DEF Stored
<1>2. ASSUME NEW id \in DOMAIN g.nodes
      PROVE  /\ IsNode(table[id]) /\ SameText(table[id], g.nodes[id])
             /\ table[id].in = g.nodes[id].in /\ table[id].heir = g.nodes[id].heir
             /\ id \in DOMAIN common.nodes => table[id] = g.nodes[id]
             /\ id \in DOMAIN view.nodes /\ ~IsFact(g.nodes[id]) => table[id].refs = g.nodes[id].refs
             /\ id \notin DOMAIN common.nodes /\ Accepts(g, id) => Files \in table[id].refs
  <2> DEFINE node == g.nodes[id]
             new == [node EXCEPT !.refs = R(id)]
  <2>1. IsNode(node)
    BY DEF Stored
  <2>2. /\ IsNode(new) /\ SameText(new, node)
        /\ new.in = node.in /\ new.refs = R(id) /\ new.heir = node.heir
    <3> HIDE DEF R, node
    <3> QED  BY <2>1, RefsOf
  <2>3. table[id] = IF id \in DOMAIN common.nodes THEN node ELSE new
    OBVIOUS
  <2>4. id \in DOMAIN view.nodes /\ ~IsFact(node) => R(id) = node.refs
    OBVIOUS
  <2>5. Accepts(g, id) => Files \in R(id)
    BY DEF Accepts
  <2> HIDE DEF table, new, R
  <2>6. CASE id \in DOMAIN common.nodes
    BY <2>1, <2>3, <2>6 DEF SameText
  <2>7. CASE id \notin DOMAIN common.nodes
    BY <2>2, <2>3, <2>4, <2>5, <2>7
  <2> QED  BY <2>6, <2>7
<1>3. DOMAIN table = DOMAIN g.nodes
  OBVIOUS
<1> HIDE DEF table, h
<1>4. h.nodes = table /\ h.subs = g.subs /\ h.edges = g.edges
  BY <1>1
<1>5. h = [nodes |-> h.nodes, subs |-> h.subs, edges |-> h.edges]
  BY <1>1, <1>4
<1> QED  BY <1>2, <1>3, <1>4, <1>5 DEF h

\* Storing a good graph that composes leaves a good view that composes, where every
\* accepted fact names the files.
LEMMA CommitKeeps ==
    ASSUME NEW g, NEW cites, NEW made, Kept(view, draft, common), Good(g, draft, common, cites),
           made \intersect (DOMAIN common.nodes \union DOMAIN view.nodes) = {},
           DOMAIN g.nodes \subseteq DOMAIN view.nodes \union made, Composable(common, g)
    PROVE  /\ Good(Sourced(g), draft, common, cites) /\ Named(Sourced(g), common)
           /\ Composable(common, Sourced(g))
<1> DEFINE h == Sourced(g)
<1>1. /\ h = [nodes |-> h.nodes, subs |-> h.subs, edges |-> h.edges]
      /\ h.subs = g.subs /\ h.edges = g.edges /\ DOMAIN h.nodes = DOMAIN g.nodes
      /\ \A id \in DOMAIN g.nodes :
            /\ IsNode(h.nodes[id]) /\ SameText(h.nodes[id], g.nodes[id])
            /\ h.nodes[id].in = g.nodes[id].in /\ h.nodes[id].heir = g.nodes[id].heir
            /\ id \in DOMAIN common.nodes => h.nodes[id] = g.nodes[id]
            /\ id \in DOMAIN view.nodes /\ ~IsFact(g.nodes[id]) => h.nodes[id].refs = g.nodes[id].refs
            /\ id \notin DOMAIN common.nodes /\ Accepts(g, id) => Files \in h.nodes[id].refs
  BY SourcedIs DEF Good
<1> HIDE DEF h
<1>2. Stored(h)
  BY <1>1 DEF Good, Stored
<1>3. Kept(h, draft, common)
  <2> SUFFICES ASSUME NEW id \in DOMAIN draft.nodes, Directive(draft.nodes[id])
               PROVE  IF id \in DOMAIN h.nodes THEN StillSays(h.nodes[id], draft.nodes[id])
                                               ELSE id \in DOMAIN common.nodes
    BY DEF Kept
  <2>1. CASE id \in DOMAIN g.nodes
    <3>1. StillSays(g.nodes[id], draft.nodes[id])
      BY <2>1 DEF Good, Kept
    <3>2. id \in DOMAIN view.nodes \/ id \in DOMAIN common.nodes
      BY DEF Kept
    <3>3. ~IsFact(g.nodes[id])
      BY <3>1 DEF StillSays, IsFact, Directive
    <3>4. h.nodes[id].refs = g.nodes[id].refs
      BY <2>1, <3>2, <3>3, <1>1
    <3>5. SameText(h.nodes[id], g.nodes[id]) /\ h.nodes[id].in = g.nodes[id].in
      BY <2>1, <1>1
    <3> QED  BY <2>1, <3>1, <3>4, <3>5, <1>1 DEF StillSays, SameText
  <2>2. CASE id \notin DOMAIN g.nodes
    BY <2>2, <1>1 DEF Good, Kept
  <2> QED  BY <2>1, <2>2
<1>4. NoneNew(h, draft)
  BY <1>1 DEF Good, NoneNew, Directive, SameText
<1>5. \A id \in DOMAIN g.nodes : Accepts(h, id) <=> Accepts(g, id)
  BY <1>1 DEF Accepts, IsFact, SameText
<1>6. Evident(h, common, cites) /\ Named(h, common)
  BY <1>1, <1>5 DEF Good, Evident, Named
<1>7. Valid(Composed(common, h))
  <2>1. SameShape(g, h)
    BY <1>1 DEF SameShape
  <2>2. SameShape(Composed(common, g), Composed(common, h))
    BY <2>1, ComposedShape
  <2> QED  BY <2>2, ShapeIsEnough DEF Composable
<1>8. \A id \in DOMAIN h.nodes \intersect DOMAIN common.nodes :
         Corrected(common, g, id) => Corrected(common, h, id)
  <2> SUFFICES ASSUME NEW id \in DOMAIN g.nodes, id \in DOMAIN common.nodes, Corrected(common, g, id)
               PROVE  Corrected(common, h, id)
    BY <1>1
  <2> DEFINE heir == g.nodes[id].heir
  <2>1. heir \in DOMAIN g.nodes /\ heir \notin DOMAIN common.nodes /\ g.nodes[heir].status = "accepted"
    BY DEF Corrected
  <2>2. h.nodes[id] = g.nodes[id] /\ h.nodes[heir].status = g.nodes[heir].status
    BY <2>1, <1>1 DEF SameText
  <2> HIDE DEF heir
  <2>3. h.nodes[id].heir = heir
    BY <2>2 DEF heir
  <2> QED  BY <2>1, <2>2, <2>3, <1>1 DEF Corrected
<1>9. \A id \in DOMAIN h.nodes \intersect DOMAIN common.nodes : h.nodes[id] = g.nodes[id]
  BY <1>1
<1>10. \A id \in DOMAIN h.nodes \intersect DOMAIN common.nodes :
          LET node == h.nodes[id]
              orig == common.nodes[id]
          IN /\ [node EXCEPT !.status = orig.status, !.heir = orig.heir] = orig
             /\ node = orig \/ Corrected(common, h, id)
  <2> SUFFICES ASSUME NEW id \in DOMAIN h.nodes \intersect DOMAIN common.nodes
               PROVE  LET node == h.nodes[id]
                          orig == common.nodes[id]
                      IN /\ [node EXCEPT !.status = orig.status, !.heir = orig.heir] = orig
                         /\ node = orig \/ Corrected(common, h, id)
    OBVIOUS
  <2>1. id \in DOMAIN g.nodes \intersect DOMAIN common.nodes
    BY <1>1
  <2>2. LET node == g.nodes[id]
            orig == common.nodes[id]
        IN /\ [node EXCEPT !.status = orig.status, !.heir = orig.heir] = orig
           /\ node = orig \/ Corrected(common, g, id)
    BY <2>1, Zenon DEF Composable
  <2>3. h.nodes[id] = g.nodes[id]
    BY <1>9
  <2>4. Corrected(common, g, id) => Corrected(common, h, id)
    BY <1>8
  <2> QED  BY <2>2, <2>3, <2>4, Zenon
<1>11. \A s \in DOMAIN h.subs \intersect DOMAIN common.subs : h.subs[s] = common.subs[s]
  BY <1>1 DEF Composable
<1>12. Composable(common, h)
  BY <1>7, <1>10, <1>11, Zenon DEF Composable
<1>13. Good(h, draft, common, cites)
  BY <1>2, <1>3, <1>4, <1>6 DEF Good
<1> QED  BY <1>6, <1>12, <1>13 DEF h

-----------------------------------------------------------------------------
(* The invariant *)

\* The invariant holds at first.
LEMMA InitInv ==
    ASSUME Init
    PROVE  Inv
<1>1. IsBatch(NoBatch) /\ ~NoBatch.open /\ NoBatch.open \in BOOLEAN
  BY DEF NoBatch, IsBatch
<1> QED  BY <1>1 DEF Init, Inv

\* What is common is finite.
LEMMA CommonFinite ==
    ASSUME NEW ss \in Inputs
    PROVE  IsFiniteSet(DOMAIN Common(ss).nodes)
<1>1. 1 \in DOMAIN ss /\ IsFiniteSet(DOMAIN ss[1].nodes)
  BY SourcesAre DEF IsGraph, IsTable
<1>2. DOMAIN Common(ss).nodes \subseteq DOMAIN ss[1].nodes
  BY <1>1, CommonIs
<1> QED  BY <1>1, <1>2, FS_Subset

\* The draft always holds together: the attempt never ends here.
LEMMA BeginInv ==
    ASSUME Inv, OrganizeInputMemory
    PROVE  Inv'
<1> DEFINE c == Common(sources)
           d == Draft(sources, c)
<1>1. /\ pc = "fixed" /\ sources \in Inputs /\ sources' = sources
      /\ batch' = batch /\ cited' = cited /\ ~batch.open /\ common' = c /\ IsBatch(batch)
  BY DEF Inv, OrganizeInputMemory
<1>2. CASE ~HasDifferences(sources, c)
  <2>1. pc' = "done" /\ draft' = c /\ result' = c
    BY <1>2 DEF OrganizeInputMemory
  <2> HIDE DEF c
  <2>2. ResultRight'
    BY <2>1, <1>1, <1>2 DEF ResultRight
  <2> QED  BY <1>1, <2>1, <2>2 DEF Inv, IsBatch, c
<1>3. CASE HasDifferences(sources, c)
  <2>1. Valid(d)
    BY <1>1, DraftValid
  <2>2. pc' = "organize" /\ draft' = d /\ view' = Disputed(c, Scope(c, d))
    BY <1>3, <2>1 DEF OrganizeInputMemory
  <2>3. (\A cites : Good(view', d, c, cites)) /\ Named(view', c) /\ Composable(c, view')
    BY <1>1, <2>2, Begins
  <2>4. common' = Common(sources') /\ draft' = Draft(sources', common')
    BY <1>1, <2>2
  <2> HIDE DEF c, d
  <2>5. Workable'
    BY <1>1, <2>2, <2>3, <2>4 DEF Workable
  <2>6. HasDifferences(sources', common')
    BY <1>1, <1>3
  <2> QED  BY <1>1, <2>2, <2>4, <2>5, <2>6 DEF Inv, IsBatch
<1> QED  BY <1>2, <1>3

\* The batch a call works on, a new one over a copy of the view or the open one.
LEMMA OpenIs ==
    ASSUME Inv, pc = "organize"
    PROVE  IsBatch(Open) /\ Open.open = TRUE /\ Batched(Open)
<1>1. CASE batch.open
  <2>1. Open = batch
    BY <1>1 DEF Open
  <2>2. IsBatch(batch) /\ batch.open = TRUE /\ Batched(batch)
    BY <1>1 DEF Inv
  <2> QED  BY <2>1, <2>2
<1>2. CASE ~batch.open
  <2>1. Open = [open |-> TRUE, g |-> view, made |-> {}, ops |-> 0, cited |-> cited]
    BY <1>2 DEF Open, NoBatch
  <2>2. Open.open = TRUE /\ Open.g = view /\ Open.made = {} /\ Open.cited = cited /\ Open.ops = 0
    BY <2>1
  <2>3. IsBatch(Open)
    BY <2>1, <2>2 DEF IsBatch
  <2> HIDE DEF Open
  <2>4. Good(view, draft, common, cited)
    BY DEF Inv, Workable
  <2>5. Batched(Open)
    BY <2>2, <2>4, FS_EmptySet DEF Batched
  <2> QED  BY <2>2, <2>3, <2>5
<1> QED  BY <1>1, <1>2

\* What an operation leaves of a batch, field by field.
LEMMA QueueIs ==
    ASSUME NEW b, IsBatch(b), NEW g, NEW made, NEW id, NEW op, Queue(b, g, made, id, op)
    PROVE  /\ IsBatch(batch') /\ batch'.open = b.open /\ batch'.g = g /\ batch'.made = made
           /\ batch'.cited = IF op.do \notin {"create", "update", "status"} THEN b.cited
                             ELSE IF op.cites THEN b.cited \union {id} ELSE b.cited \ {id}
<1> DEFINE C == IF op.do \notin {"create", "update", "status"} THEN b.cited
                ELSE IF op.cites THEN b.cited \union {id} ELSE b.cited \ {id}
           k == b.ops + 1
<1>1. batch' = [b EXCEPT !.g = g, !.made = made, !.ops = k, !.cited = C]
  BY DEF Queue
<1> HIDE DEF C, k
<1>2. batch' = [open |-> b.open, g |-> g, made |-> made, ops |-> k, cited |-> C]
  BY <1>1 DEF IsBatch
<1>3. /\ batch'.open = b.open /\ batch'.g = g /\ batch'.made = made /\ batch'.ops = k
      /\ batch'.cited = C
  BY <1>2
<1>4. IsBatch(batch')
  BY <1>2, <1>3 DEF IsBatch
<1> QED  BY <1>3, <1>4 DEF C

\* A step of a batch leaves all but the batch.
LEMMA BatchedInv ==
    ASSUME Inv, pc = "organize", IsBatch(batch'), batch'.open = TRUE,
           UNCHANGED <<pc, sources, common, draft, view, result, batches, cited>>,
           Good(batch'.g, draft, common, batch'.cited), IsFiniteSet(batch'.made),
           batch'.made \intersect (DOMAIN common.nodes \union DOMAIN view.nodes) = {},
           DOMAIN batch'.g.nodes \subseteq DOMAIN view.nodes \union batch'.made
    PROVE  Inv'
<1>1. Batched(batch)'
  BY DEF Batched
<1>2. Workable'
  BY DEF Inv, Workable
<1>3. /\ IsBatch(batch)' /\ (batch.open \in BOOLEAN)' /\ pc' = "organize" /\ sources' \in Inputs
      /\ (common = Common(sources))' /\ HasDifferences(sources, common)'
  BY DEF Inv
<1> QED  BY <1>1, <1>2, <1>3 DEF Inv

\* A create operation keeps the invariant: its identity is free in every graph.
LEMMA CreateInv ==
    ASSUME Inv, NEW op \in Edits, Create(op)
    PROVE  Inv'
<1> DEFINE b == Open
           fresh == Fresh(b.made)
           grown == WithMemory(b.g, fresh, Created(op))
           made == b.made \union {fresh}
<1>1. /\ pc = "organize" /\ op.do = "create" /\ ~Invents(op, FALSE) /\ Backed(op, op)
      /\ Queue(b, grown, made, fresh, op)
      /\ UNCHANGED <<pc, sources, common, draft, view, result, batches, cited>>
  BY DEF Create, Working
<1>2. IsBatch(b) /\ b.open = TRUE /\ Batched(b)
  BY <1>1, OpenIs
<1> HIDE DEF b
<1>3. fresh \notin DOMAIN common.nodes \union DOMAIN view.nodes \union b.made
  <2>1. IsFiniteSet(DOMAIN common.nodes)
    BY <1>1, CommonFinite DEF Inv
  <2>2. IsFiniteSet(DOMAIN view.nodes) /\ IsFiniteSet(b.made)
    BY <1>1, <1>2 DEF Inv, Workable, Good, Stored, Batched
  <2> QED  BY <2>1, <2>2, FreshIsNew
<1> HIDE DEF fresh
<1>4. fresh \notin DOMAIN b.g.nodes
  BY <1>2, <1>3 DEF Batched
<1> HIDE DEF grown, made
<1>5. /\ IsBatch(batch') /\ batch'.open = TRUE /\ batch'.g = grown /\ batch'.made = made
      /\ batch'.cited = IF op.cites THEN b.cited \union {fresh} ELSE b.cited \ {fresh}
  BY <1>1, <1>2, QueueIs, ZenonT(60)
<1>6. Good(grown, draft, common, batch'.cited) /\ DOMAIN grown.nodes \subseteq DOMAIN b.g.nodes \union {fresh}
  <2>1. Kept(view, draft, common) /\ Good(b.g, draft, common, b.cited)
    BY <1>1, <1>2 DEF Inv, Workable, Good, Batched
  <2>2. fresh \notin DOMAIN common.nodes /\ fresh \notin DOMAIN view.nodes
    BY <1>3
  <2>3. op.do = "create" /\ ~Invents(op, FALSE) /\ Backed(op, op)
    BY <1>1
  <2>4. batch'.cited = IF op.cites THEN b.cited \union {fresh} ELSE b.cited \ {fresh}
    BY <1>5
  <2>5. /\ Good(WithMemory(b.g, fresh, Created(op)), draft, common, batch'.cited)
        /\ DOMAIN WithMemory(b.g, fresh, Created(op)).nodes \subseteq DOMAIN b.g.nodes \union {fresh}
    BY <2>1, <2>2, <2>3, <2>4, <1>4, CreateKeeps
  <2> QED  BY <2>5 DEF grown
<1>7. IsFiniteSet(made) /\ made \intersect (DOMAIN common.nodes \union DOMAIN view.nodes) = {}
  <2>1. IsFiniteSet(b.made) /\ b.made \intersect (DOMAIN common.nodes \union DOMAIN view.nodes) = {}
    BY <1>2 DEF Batched
  <2>2. IsFiniteSet(made)
    BY <2>1, FS_AddElement DEF made
  <2> QED  BY <2>1, <2>2, <1>3 DEF made
<1>8. DOMAIN grown.nodes \subseteq DOMAIN view.nodes \union made
  BY <1>2, <1>6 DEF Batched, made
<1> QED  BY <1>1, <1>5, <1>6, <1>7, <1>8, BatchedInv

\* So does any operation on a node the model was shown,
LEMMA ChangeInv ==
    ASSUME Inv, NEW op \in Edits, NEW id \in DOMAIN view.nodes, Change(op, id)
    PROVE  Inv'
<1> DEFINE b == Open
           g == Changed(b.g, op, id)
<1>1. /\ pc = "organize" /\ op.do \notin {"create", "describe"} /\ id \in DOMAIN b.g.nodes
      /\ ~Invents(op, Directive(view.nodes[id])) /\ Backed(op, b.g.nodes[id])
      /\ Allowed(op, id, view.nodes[id]) /\ (op.do = "status" => op.status # "")
      /\ Queue(b, g, b.made, id, op)
      /\ UNCHANGED <<pc, sources, common, draft, view, result, batches, cited>>
  BY DEF Change, Working
<1>2. IsBatch(b) /\ b.open = TRUE /\ Batched(b)
  BY <1>1, OpenIs
<1> HIDE DEF b, g
<1>3. /\ IsBatch(batch') /\ batch'.open = TRUE /\ batch'.g = g /\ batch'.made = b.made
      /\ batch'.cited = IF op.do \notin {"create", "update", "status"} THEN b.cited
                        ELSE IF op.cites THEN b.cited \union {id} ELSE b.cited \ {id}
  BY <1>1, <1>2, QueueIs
<1>4. Kept(view, draft, common) /\ NoneNew(view, draft) /\ Good(b.g, draft, common, b.cited)
  BY <1>1, <1>2 DEF Inv, Workable, Good, Batched
<1>5. Good(g, draft, common, batch'.cited) /\ DOMAIN g.nodes \subseteq DOMAIN b.g.nodes
  BY <1>1, <1>3, <1>4, ChangeKeeps DEF g
<1>6. /\ IsFiniteSet(b.made) /\ b.made \intersect (DOMAIN common.nodes \union DOMAIN view.nodes) = {}
      /\ DOMAIN g.nodes \subseteq DOMAIN view.nodes \union b.made
  BY <1>2, <1>5 DEF Batched
<1> QED  BY <1>1, <1>3, <1>5, <1>6, BatchedInv

\* ... a description,
LEMMA DescribeInv ==
    ASSUME Inv, NEW op \in Edits, NEW s \in DOMAIN view.subs, Describe(op, s)
    PROVE  Inv'
<1> DEFINE b == Open
           sub == [b.g.subs[s] EXCEPT !.text = op.says]
           g == WithSubgraph(b.g, s, sub)
<1>1. /\ pc = "organize" /\ op.do = "describe" /\ Queue(b, g, b.made, s, op)
      /\ UNCHANGED <<pc, sources, common, draft, view, result, batches, cited>>
  BY DEF Describe, Working
<1>2. IsBatch(b) /\ b.open = TRUE /\ Batched(b)
  BY <1>1, OpenIs
<1> HIDE DEF b, g, sub
<1>3. /\ IsBatch(batch') /\ batch'.open = TRUE /\ batch'.g = g /\ batch'.made = b.made
      /\ batch'.cited = b.cited
  BY <1>1, <1>2, QueueIs
<1>4. Good(g, draft, common, b.cited) /\ g.nodes = b.g.nodes
  <2>1. Good(b.g, draft, common, b.cited)
    BY <1>2 DEF Batched
  <2> QED  BY <2>1, DescribeKeeps DEF g
<1>5. /\ IsFiniteSet(b.made) /\ b.made \intersect (DOMAIN common.nodes \union DOMAIN view.nodes) = {}
      /\ DOMAIN g.nodes \subseteq DOMAIN view.nodes \union b.made
  BY <1>2, <1>4 DEF Batched
<1> QED  BY <1>1, <1>3, <1>4, <1>5, BatchedInv

\* A graph that composes is stored with its sources, any other is dropped.
LEMMA CommitInv ==
    ASSUME Inv, pc = "organize", NEW g, NEW cites, NEW made, CommitGraph(g, cites),
           Good(g, draft, common, cites),
           made \intersect (DOMAIN common.nodes \union DOMAIN view.nodes) = {},
           DOMAIN g.nodes \subseteq DOMAIN view.nodes \union made,
           UNCHANGED <<pc, sources, common, draft, result>>,
           IsBatch(batch'), batch'.open = FALSE
    PROVE  Inv'
<1>1. Workable'
  <2>1. CASE Composable(common, g)
    <3>1. view' = Sourced(g) /\ cited' = cites
      BY <2>1 DEF CommitGraph
    <3>2. Kept(view, draft, common)
      BY DEF Inv, Workable, Good
    <3>3. /\ Good(Sourced(g), draft, common, cites) /\ Named(Sourced(g), common)
          /\ Composable(common, Sourced(g))
      BY <2>1, <3>2, CommitKeeps
    <3> QED  BY <3>1, <3>3 DEF Inv, Workable
  <2>2. CASE ~Composable(common, g)
    <3>1. view' = view /\ cited' = cited
      BY <2>2 DEF CommitGraph
    <3> QED  BY <3>1 DEF Inv, Workable
  <2> QED  BY <2>1, <2>2
<1>2. /\ IsBatch(batch)' /\ batch'.open \in BOOLEAN /\ pc' = "organize" /\ sources' \in Inputs
      /\ (common = Common(sources))' /\ HasDifferences(sources, common)'
  BY DEF Inv
<1> QED  BY <1>1, <1>2 DEF Inv

\* ... the end of a batch, stored or refused,
LEMMA ApplyInv ==
    ASSUME Inv, MemoryApply
    PROVE  Inv'
<1>1. /\ pc = "organize" /\ Batched(batch) /\ CommitGraph(batch.g, batch.cited)
      /\ batch' = NoBatch /\ UNCHANGED <<pc, sources, common, draft, result>>
  BY DEF MemoryApply, Inv
<1>2. IsBatch(NoBatch) /\ NoBatch.open = FALSE
  BY DEF NoBatch, IsBatch
<1> QED  BY <1>1, <1>2, CommitInv DEF Batched

\* ... memory_add_to_subgraph,
LEMMA AddInv ==
    ASSUME Inv, NEW s, NEW id \in DOMAIN view.nodes, AddToSubgraph(s, id)
    PROVE  Inv'
<1> DEFINE grown == WithNodesInSubgraph(view, s, {id})
<1>1. /\ pc = "organize" /\ ~batch.open /\ s \notin view.nodes[id].in /\ CommitGraph(grown, cited)
      /\ batch' = batch /\ UNCHANGED <<pc, sources, common, draft, result>>
  BY DEF AddToSubgraph
<1>2. Good(view, draft, common, cited)
  BY <1>1 DEF Inv, Workable
<1>3. Good(grown, draft, common, cited) /\ DOMAIN grown.nodes \subseteq DOMAIN view.nodes
  <2>1. s \notin view.nodes[id].in
    BY <1>1
  <2> HIDE DEF grown
  <2>2. Good(WithNodesInSubgraph(view, s, {id}), draft, common, cited)
    BY <1>2, <2>1, AddKeeps
  <2>3. DOMAIN WithNodesInSubgraph(view, s, {id}).nodes \subseteq DOMAIN view.nodes
    BY <1>2, <2>1, AddKeeps
  <2> QED  BY <2>2, <2>3 DEF grown
<1>4. IsBatch(batch') /\ batch'.open = FALSE
  BY <1>1 DEF Inv
<1> HIDE DEF grown
<1>5. DOMAIN grown.nodes \subseteq DOMAIN view.nodes \union {}
  BY <1>3
<1>6. {} \intersect (DOMAIN common.nodes \union DOMAIN view.nodes) = {}
  OBVIOUS
<1> QED  BY <1>1, <1>3, <1>4, <1>5, <1>6, CommitInv

\* ... the end of the attempt, which always composes,
LEMMA FinishInv ==
    ASSUME Inv, Finish
    PROVE  Inv'
<1>1. /\ pc = "organize" /\ Workable /\ HasDifferences(sources, common)
      /\ UNCHANGED <<sources, common, draft, view, batch, batches, cited>>
  BY DEF Finish, Inv
<1>2. pc' = "done" /\ result' = Composed(common, view)
  BY <1>1 DEF Finish, Workable
<1>3. Workable' /\ HasDifferences(sources, common)' /\ (result = Composed(common, view))'
  BY <1>1, <1>2 DEF Workable
<1>4. ResultRight'
  BY <1>3 DEF ResultRight
<1>5. /\ IsBatch(batch)' /\ (batch.open \in BOOLEAN)' /\ sources' \in Inputs
      /\ (common = Common(sources))'
  BY <1>1 DEF Inv
<1> QED  BY <1>2, <1>4, <1>5 DEF Inv

\* ... and a step that changes nothing.
LEMMA StutterInv ==
    ASSUME Inv, UNCHANGED vars
    PROVE  Inv'
BY DEF Inv, vars, IsBatch, Workable, Batched, ResultRight

\* agent/input_memory.go:24: the invariant holds in every state, through batches that are
\* applied and batches that are refused.  The attempt never fails: the draft and what is
\* left at the end always compose.
THEOREM InvHolds == Spec => []Inv
<1>1. Init => Inv
  BY InitInv
<1>2. Inv /\ [Next]_vars => Inv'
  <2> SUFFICES ASSUME Inv, [Next]_vars PROVE Inv'
    OBVIOUS
  <2>1. CASE OrganizeInputMemory
    BY <2>1, BeginInv
  <2>2. ASSUME NEW op \in Edits, Create(op) PROVE Inv'
    BY <2>2, CreateInv
  <2>3. ASSUME NEW op \in Edits, NEW id \in DOMAIN view.nodes, Change(op, id) PROVE Inv'
    BY <2>3, ChangeInv
  <2>4. ASSUME NEW op \in Edits, NEW s \in DOMAIN view.subs, Describe(op, s) PROVE Inv'
    BY <2>4, DescribeInv
  <2>5. CASE MemoryApply
    BY <2>5, ApplyInv
  <2>6. ASSUME NEW s, NEW id \in DOMAIN view.nodes, AddToSubgraph(s, id) PROVE Inv'
    BY <2>6, AddInv
  <2>7. CASE Finish
    BY <2>7, FinishInv
  <2>8. CASE UNCHANGED vars
    BY <2>8, StutterInv
  <2> QED  BY <2>1, <2>2, <2>3, <2>4, <2>5, <2>6, <2>7, <2>8 DEF Next
<1> QED  BY <1>1, <1>2, PTL DEF Spec

-----------------------------------------------------------------------------
(* The properties *)

\* context/input.go:66: the draft keeps every version of every source, under an identity
\* of its own, with its edges and its subgraphs, and with the successor the last of its
\* sources gave it; common nodes are unchanged.  It holds together, so that an attempt
\* never ends before the model is asked.
THEOREM KeepsVersions == Spec => []VersionsKept
<1>1. Inv => VersionsKept
  <2> SUFFICES ASSUME Inv, pc = "organize"
               PROVE  Valid(draft) /\ \A i \in DOMAIN sources : Embeds(i)
    BY DEF VersionsKept
  <2>1. sources \in Inputs /\ common = Common(sources) /\ draft = Draft(sources, common)
    BY DEF Inv, Workable
  <2>2. Valid(draft)
    BY <2>1, DraftValid
  <2>3. \A i \in DOMAIN sources : Embeds(i)
    BY <2>1, DraftEmbeds
  <2> QED  BY <2>2, <2>3
<1> QED  BY <1>1, InvHolds, PTL

\* agent/input_memory.go:271: a fact that not all sources hold is accepted only as a text
\* that was accepted on evidence of the final files, and it names them, whatever batches
\* were applied or refused on the way.
THEOREM AcceptsOnEvidence == Spec => []AcceptedOnEvidence
<1>1. Inv => AcceptedOnEvidence
  <2> SUFFICES ASSUME Inv, pc = "done", HasDifferences(sources, common),
                      NEW id \in DOMAIN result.nodes \ DOMAIN common.nodes,
                      IsFact(result.nodes[id]), result.nodes[id].status = "accepted"
               PROVE  id \in cited /\ Files \in result.nodes[id].refs
    BY DEF AcceptedOnEvidence
  <2>1. Workable /\ result = Composed(common, view)
    BY DEF Inv, ResultRight
  <2>2. id \in DOMAIN view.nodes /\ result.nodes[id] = view.nodes[id]
    BY <2>1, ComposedIs
  <2>3. Accepts(view, id)
    BY <2>2 DEF Accepts
  <2> QED  BY <2>1, <2>2, <2>3 DEF Workable, Good, Evident, Named
<1> QED  BY <1>1, InvHolds, PTL

\* A requirement of the draft in what was composed.
LEMMA RequirementStays ==
    ASSUME Workable, sources \in Inputs, common = Common(sources), result = Composed(common, view),
           NEW id \in DOMAIN draft.nodes, Directive(draft.nodes[id])
    PROVE  /\ id \in DOMAIN result.nodes /\ IsNode(draft.nodes[id]) /\ IsNode(result.nodes[id])
           /\ StillSays(result.nodes[id], draft.nodes[id])
<1>1. /\ DOMAIN result.nodes = DOMAIN view.nodes \union DOMAIN common.nodes
      /\ \A x \in DOMAIN result.nodes :
            result.nodes[x] = IF x \in DOMAIN view.nodes THEN view.nodes[x] ELSE common.nodes[x]
  BY ComposedIs
<1>2. IsNode(draft.nodes[id])
  BY DraftStored DEF Workable
<1>3. CASE id \in DOMAIN view.nodes
  <2>1. StillSays(view.nodes[id], draft.nodes[id]) /\ IsNode(view.nodes[id])
    BY <1>3 DEF Workable, Good, Kept, Stored
  <2> QED  BY <2>1, <1>1, <1>2, <1>3
<1>4. CASE id \notin DOMAIN view.nodes
  <2>1. id \in DOMAIN common.nodes
    BY <1>4 DEF Workable, Good, Kept
  <2>2. draft.nodes[id] = common.nodes[id]
    BY <2>1, DraftIs DEF Workable
  <2>3. result.nodes[id] = draft.nodes[id] /\ id \in DOMAIN result.nodes
    BY <2>1, <2>2, <1>1, <1>4
  <2> QED  BY <2>3, <1>2 DEF StillSays
<1> QED  BY <1>3, <1>4

\* A requirement that still says the same is, word for word, the same.
LEMMA WordForWord ==
    ASSUME NEW x, IsNode(x), NEW y, IsNode(y), StillSays(x, y)
    PROVE  [x EXCEPT !.in = {}, !.status = "", !.heir = NoId]
              = [y EXCEPT !.in = {}, !.status = "", !.heir = NoId]
<1> DEFINE Bare(z) == [kind |-> z.kind, says |-> z.says, status |-> "", in |-> {},
                       refs |-> z.refs, by |-> z.by, heir |-> NoId]
<1>1. ASSUME NEW z, IsNode(z)
      PROVE  [z EXCEPT !.in = {}, !.status = "", !.heir = NoId] = Bare(z)
  <2> DEFINE blank == ""
  <2> HIDE DEF blank
  <2>1. PICK k, s, t, i, r, w, o :
           z = [kind |-> k, says |-> s, status |-> t, in |-> i, refs |-> r, by |-> w, heir |-> o]
    BY <1>1 DEF IsNode
  <2>2. z.kind = k /\ z.says = s /\ z.refs = r /\ z.by = w
    BY <2>1
  <2> DEFINE z1 == [z EXCEPT !.in = {}]
             z2 == [z1 EXCEPT !.status = blank]
             z3 == [z2 EXCEPT !.heir = NoId]
  <2>3. z1 = [kind |-> k, says |-> s, status |-> t, in |-> {}, refs |-> r, by |-> w, heir |-> o]
    BY <2>1
  <2> HIDE DEF z1
  <2>4. z2 = [kind |-> k, says |-> s, status |-> blank, in |-> {}, refs |-> r, by |-> w, heir |-> o]
    BY <2>3
  <2> HIDE DEF z2
  <2>5. z3 = [kind |-> k, says |-> s, status |-> blank, in |-> {}, refs |-> r, by |-> w, heir |-> NoId]
    BY <2>4
  <2> HIDE DEF z3
  <2>6. z3 = Bare(z)
    BY <2>2, <2>5 DEF blank
  <2> QED  BY <2>6 DEF z1, z2, z3, blank
<1>2. Bare(x) = Bare(y)
  BY DEF StillSays
<1> HIDE DEF Bare
<1> QED  BY <1>1, <1>2

\* agent/input_memory.go:91, memory_apply.go:31: whatever the model does, the attempt ends
\* in a memory that holds the requirements of the sources, word for word, and no others,
\* and what all sources agree on unless an accepted correction took its place.
THEOREM KeepsAgreed == Spec => []AgreedKept
<1> DEFINE Words(id) == [result.nodes[id] EXCEPT !.in = {}, !.status = "", !.heir = NoId]
                           = [draft.nodes[id] EXCEPT !.in = {}, !.status = "", !.heir = NoId]
           Requirements == \A id \in DOMAIN draft.nodes : Directive(draft.nodes[id]) =>
              /\ id \in DOMAIN result.nodes
              /\ Words(id)
              /\ draft.nodes[id].in \subseteq result.nodes[id].in \/ ~Locked(draft.nodes[id])
              /\ Locked(draft.nodes[id]) => result.nodes[id].status = draft.nodes[id].status
           Others == \A id \in DOMAIN result.nodes : Directive(result.nodes[id]) =>
              id \in DOMAIN draft.nodes /\ Directive(draft.nodes[id])
           Agreed == \A id \in DOMAIN common.nodes : result.nodes[id] # common.nodes[id] =>
              /\ result.nodes[id].status = "superseded"
              /\ result.nodes[result.nodes[id].heir].status = "accepted"
              /\ result.nodes[id].heir \notin DOMAIN common.nodes
<1>1. ASSUME Inv, pc = "done", ~HasDifferences(sources, common)
      PROVE  Requirements /\ Others /\ Agreed
  <2>1. draft = common /\ result = common
    BY <1>1 DEF Inv, ResultRight
  <2> QED  BY <2>1
<1>2. ASSUME Inv, pc = "done", HasDifferences(sources, common)
      PROVE  Requirements /\ Others /\ Agreed
  <2>1. /\ sources \in Inputs /\ common = Common(sources) /\ Workable
        /\ result = Composed(common, view)
    BY <1>2 DEF Inv, ResultRight
  <2>2. /\ DOMAIN result.nodes = DOMAIN view.nodes \union DOMAIN common.nodes
        /\ \A x \in DOMAIN result.nodes :
              result.nodes[x] = IF x \in DOMAIN view.nodes THEN view.nodes[x] ELSE common.nodes[x]
    BY <2>1, ComposedIs
  <2>3. Requirements
    <3> SUFFICES ASSUME NEW id \in DOMAIN draft.nodes, Directive(draft.nodes[id])
                 PROVE  /\ id \in DOMAIN result.nodes
                        /\ Words(id)
                        /\ draft.nodes[id].in \subseteq result.nodes[id].in \/ ~Locked(draft.nodes[id])
                        /\ Locked(draft.nodes[id]) => result.nodes[id].status = draft.nodes[id].status
      OBVIOUS
    <3>1. /\ id \in DOMAIN result.nodes /\ IsNode(draft.nodes[id]) /\ IsNode(result.nodes[id])
          /\ StillSays(result.nodes[id], draft.nodes[id])
      BY <2>1, RequirementStays
    <3>2. Words(id)
      BY <3>1, WordForWord
    <3> HIDE DEF Words
    <3> QED  BY <3>1, <3>2 DEF StillSays
  <2>4. Others
    <3> SUFFICES ASSUME NEW id \in DOMAIN result.nodes, Directive(result.nodes[id])
                 PROVE  id \in DOMAIN draft.nodes /\ Directive(draft.nodes[id])
      OBVIOUS
    <3>1. CASE id \in DOMAIN view.nodes
      BY <3>1, <2>1, <2>2 DEF Workable, Good, NoneNew
    <3>2. CASE id \notin DOMAIN view.nodes
      <4>1. id \in DOMAIN common.nodes /\ result.nodes[id] = common.nodes[id]
        BY <3>2, <2>2
      <4>2. id \in DOMAIN draft.nodes /\ draft.nodes[id] = common.nodes[id]
        BY <4>1, <2>1, DraftIs DEF Workable
      <4> QED  BY <4>1, <4>2
    <3> QED  BY <3>1, <3>2
  <2>5. Agreed
    <3> SUFFICES ASSUME NEW id \in DOMAIN common.nodes, result.nodes[id] # common.nodes[id]
                 PROVE  /\ result.nodes[id].status = "superseded"
                        /\ result.nodes[result.nodes[id].heir].status = "accepted"
                        /\ result.nodes[id].heir \notin DOMAIN common.nodes
      OBVIOUS
    <3>1. id \in DOMAIN view.nodes /\ result.nodes[id] = view.nodes[id]
      BY <2>2
    <3>2. Corrected(common, view, id)
      <4>1. view.nodes[id] # common.nodes[id] /\ id \in DOMAIN view.nodes \intersect DOMAIN common.nodes
        BY <3>1
      <4> QED  BY <4>1, <2>1, Zenon DEF Workable, Composable
    <3> QED  BY <3>1, <3>2, <2>2 DEF Corrected
  <2> QED  BY <2>3, <2>4, <2>5
<1>3. Inv => AgreedKept
  <2> SUFFICES ASSUME Inv PROVE AgreedKept
    OBVIOUS
  <2>1. pc # "failed"
    BY DEF Inv
  <2>2. pc = "done" => Requirements /\ Others /\ Agreed
    BY <1>1, <1>2
  <2> QED  BY <2>1, <2>2 DEF AgreedKept
<1> QED  BY <1>3, InvHolds, PTL
=============================================================================
