--------------------------- MODULE NetDeviceProofs ---------------------------
(***************************************************************************)
(* The provider registry keeps its promises for any number of providers,   *)
(* contexts and callbacks in flight.  The invariant is inductive as its    *)
(* parts stand together: the counts are exact, so a count of zero means    *)
(* nobody is inside; a drained slot is retiring, so nobody enters it; a    *)
(* freed context has only drained slots.                                   *)
(***************************************************************************)
EXTENDS NetDevice, FiniteSetTheorems, TLAPS

IInv ==
    /\ TypeOK
    /\ ReferencesExact
    /\ DetachedWhenEmpty
    /\ DrainedForGood
    /\ NoCallbackInFreed

\* The callbacks inside a provider are finitely many.
LEMMA InFinite == \A i : IsFiniteSet(In(i)) /\ Cardinality(In(i)) \in Nat
<1>1. TAKE i
<1>2. In(i) \subseteq Frames BY DEF In
<1>3. IsFiniteSet(In(i)) BY <1>2, FS_Subset, NetDeviceAssumption
<1> QED BY <1>3, FS_CardinalityType

\* A count of zero says that nobody is inside.
LEMMA ZeroMeansEmpty ==
    ASSUME ReferencesExact
    PROVE  \A i \in Slot : references[i] = 0 <=> In(i) = {}
<1>1. TAKE i \in Slot
<1>2. references[i] = Cardinality(In(i)) BY DEF ReferencesExact
<1>3. Cardinality(In(i)) = 0 <=> In(i) = {} BY InFinite, FS_EmptySet
<1> QED BY <1>2, <1>3

LEMMA InitHolds == Init => IInv
<1> SUFFICES ASSUME Init PROVE IInv OBVIOUS
<1> USE NetDeviceAssumption DEF NetDeviceAssumption, Init, Slot
<1>1. TypeOK
  <2>1. \A i \in Slot : i > 0 /\ ~(i <= 0) OBVIOUS
  <2>2. \A i \in Slot : identities[i] # None <=> i <= count BY <2>1
  <2>3. count \in 0 .. Slots /\ selected \in 0 .. count /\ entered \in [Frames -> 0 .. count] OBVIOUS
  <2> QED BY <2>2, <2>3, Zenon DEF TypeOK
<1>2. ReferencesExact
  <2>1. \A i \in Slot : In(i) = {} BY DEF In
  <2>2. Cardinality({}) = 0 BY FS_EmptySet
  <2> QED BY <2>1, <2>2, Zenon DEF ReferencesExact
<1>3. DetachedWhenEmpty BY DEF DetachedWhenEmpty
<1>4. DrainedForGood BY DEF DrainedForGood
<1>5. NoCallbackInFreed BY DEF NoCallbackInFreed
<1> QED BY <1>1, <1>2, <1>3, <1>4, <1>5 DEF IInv

\* A new provider takes the slot nobody has entered.
LEMMA RegisterKeeps ==
    ASSUME IInv, NEW p \in Idents, net_device_register(p) PROVE IInv'
<1> USE NetDeviceAssumption DEF NetDeviceAssumption, IInv, Slot
<1> DEFINE n == count + 1
<1>1. n \in Slot /\ count \in Nat /\ n \in 1 .. count' /\ 1 .. count' = (1 .. count) \cup {n}
  BY DEF net_device_register, TypeOK
<1>2. \A i : In(i)' = In(i) BY DEF net_device_register, In
<1>3. In(n) = {} BY <1>1 DEF TypeOK, In
<1>4. TypeOK'
  <2>1. identities' \in [Slot -> Idents \cup {None}] BY DEF net_device_register, TypeOK
  <2>2. \A i \in Slot : identities'[i] # None <=> i <= count'
    BY <1>1 DEF net_device_register, TypeOK
  <2> QED BY <1>1, <2>1, <2>2 DEF net_device_register, TypeOK
<1>5. ReferencesExact'
  <2>1. Cardinality(In(n)) = 0 BY <1>3, FS_EmptySet, Zenon
  <2>2. \A i \in Slot : references'[i] = IF i = n THEN 0 ELSE references[i]
    BY <1>1 DEF net_device_register, TypeOK
  <2> QED BY <1>2, <2>1, <2>2 DEF ReferencesExact
<1>6. DetachedWhenEmpty'
  BY <1>1, <1>2, <1>3 DEF net_device_register, TypeOK, DetachedWhenEmpty
<1>7. DrainedForGood'
  BY <1>1, <1>2 DEF net_device_register, TypeOK, DrainedForGood
<1>8. NoCallbackInFreed'
  BY <1>1, <1>2 DEF net_device_register, TypeOK, NoCallbackInFreed
<1> QED BY <1>4, <1>5, <1>6, <1>7, <1>8

\* Selection changes nothing the invariant speaks of but the choice.
LEMMA SelectKeeps ==
    ASSUME IInv, net_device_select PROVE IInv'
<1> USE DEF IInv, net_device_select
<1>1. \A i : In(i)' = In(i) BY DEF In
<1>2. TypeOK' BY NetDeviceAssumption DEF TypeOK
<1>3. ReferencesExact' BY <1>1 DEF ReferencesExact
<1>4. DetachedWhenEmpty' BY <1>1 DEF DetachedWhenEmpty
<1>5. DrainedForGood' BY <1>1 DEF DrainedForGood
<1>6. NoCallbackInFreed' BY <1>1 DEF NoCallbackInFreed
<1> QED BY <1>2, <1>3, <1>4, <1>5, <1>6

\* Only a provider that is not retiring is entered: none that is drained.
LEMMA EnterKeeps ==
    ASSUME IInv, NEW f \in Frames, NEW i \in 1 .. count, enter(f, i) PROVE IInv'
<1> USE NetDeviceAssumption DEF NetDeviceAssumption, IInv, enter
<1>1. i \in Slot /\ i # 0 /\ count \in Nat BY DEF TypeOK, Slot
<1>2. f \notin In(i) /\ In(i)' = In(i) \cup {f} BY <1>1 DEF In, TypeOK
<1>3. \A j \in Slot : j # i => In(j)' = In(j) BY DEF In, TypeOK, Slot
<1>4. TypeOK' BY <1>1 DEF TypeOK
<1>5. ReferencesExact'
  <2>1. Cardinality(In(i)') = Cardinality(In(i)) + 1
    <3>1. PICK S : S = In(i) /\ In(i)' = S \cup {f} /\ f \notin S /\ IsFiniteSet(S) BY <1>2, InFinite
    <3>2. Cardinality(S \cup {f}) = IF f \in S THEN Cardinality(S) ELSE Cardinality(S) + 1
      BY <3>1, FS_AddElement, Zenon
    <3> QED BY <3>1, <3>2
  <2>2. references'[i] = references[i] + 1 BY <1>1 DEF TypeOK
  <2>3. \A j \in Slot : j # i => references'[j] = references[j] BY DEF TypeOK
  <2>4. \A j \in Slot : references[j] = Cardinality(In(j)) BY DEF ReferencesExact
  <2>5. references'[i] = Cardinality(In(i)') BY <1>1, <2>1, <2>2, <2>4
  <2>6. \A j \in Slot : j # i => references'[j] = Cardinality(In(j)') BY <1>3, <2>3, <2>4
  <2> QED BY <2>5, <2>6 DEF ReferencesExact
<1>6. \A j \in 1 .. count : j \in Slot BY DEF TypeOK, Slot
<1>7. DetachedWhenEmpty'
  BY <1>1, <1>2, <1>3, <1>6 DEF DetachedWhenEmpty
<1>8. DrainedForGood'
  BY <1>3, <1>6 DEF DrainedForGood, TypeOK
<1>9. NoCallbackInFreed'
  BY <1>3, <1>6 DEF NoCallbackInFreed
<1> QED BY <1>4, <1>5, <1>7, <1>8, <1>9

\* The one who leaves last finds the count at one.
LEMMA LeaveKeeps ==
    ASSUME IInv, NEW f \in Frames, leave(f) PROVE IInv'
<1> USE NetDeviceAssumption DEF NetDeviceAssumption, IInv, leave
<1>0. PICK i \in 1 .. count : i = entered[f] BY DEF TypeOK, Slot
<1>1. i \in Slot /\ count \in Nat BY DEF TypeOK, Slot
<1>2. f \in In(i) /\ In(i)' = In(i) \ {f}
  <2>1. \A g \in Frames : entered'[g] = IF g = f THEN 0 ELSE entered[g] BY DEF TypeOK
  <2>2. i # 0 BY <1>0, <1>1
  <2> QED BY <1>0, <2>1, <2>2 DEF In
<1>3. \A j \in Slot : j # i => In(j)' = In(j) BY <1>0 DEF In, TypeOK, Slot
<1>4. /\ Cardinality(In(i)') = Cardinality(In(i)) - 1
      /\ Cardinality(In(i)) \in Nat /\ Cardinality(In(i)') \in Nat
  <2>1. Cardinality(In(i) \ {f}) = Cardinality(In(i)) - 1 BY <1>2, InFinite, FS_RemoveElement, Zenon
  <2>2. IsFiniteSet(In(i) \ {f}) BY InFinite, FS_Subset
  <2> QED BY <1>2, <2>1, <2>2, InFinite, FS_CardinalityType
<1>5. references[i] = Cardinality(In(i)) BY <1>0, <1>1 DEF ReferencesExact
<1>6. references'[i] = Cardinality(In(i)') BY <1>0, <1>1, <1>4, <1>5 DEF TypeOK
<1>7. references[i] = 1 <=> In(i)' = {}
  <2>1. Cardinality(In(i)') = 0 <=> In(i)' = {}
    <3>1. IsFiniteSet(In(i) \ {f}) BY InFinite, FS_Subset
    <3> QED BY <1>2, <3>1, FS_EmptySet, Zenon
  <2> QED BY <1>4, <1>5, <2>1
<1>8. TypeOK'
  <2>1. references' \in [Slot -> Nat] BY <1>0, <1>1, <1>4, <1>6 DEF TypeOK
  <2> QED BY <1>0, <1>1, <2>1 DEF TypeOK
<1>9. ReferencesExact'
  <2>1. \A j \in Slot : j # i => references'[j] = references[j] BY <1>0 DEF TypeOK
  <2>2. \A j \in Slot : j # i => references'[j] = Cardinality(In(j)')
    BY <1>3, <2>1 DEF ReferencesExact
  <2> QED BY <1>6, <2>2 DEF ReferencesExact
<1>10. \A j \in 1 .. count : j \in Slot BY DEF TypeOK, Slot
<1>11. DetachedWhenEmpty'
  <2> SUFFICES ASSUME NEW j \in 1 .. count
               PROVE  callable'[j] <=> ~retiring[j] \/ In(j)' # {}
    BY DEF DetachedWhenEmpty
  <2>1. CASE j # i
    <3>1. callable'[j] = callable[j] /\ In(j)' = In(j) BY <1>0, <1>3, <1>10, <2>1 DEF TypeOK
    <3> QED BY <3>1, Zenon DEF DetachedWhenEmpty
  <2>2. CASE j = i
    <3>1. callable[i] BY <1>0, <1>1, <1>2 DEF DetachedWhenEmpty
    <3> QED BY <1>0, <1>1, <1>7, <2>2, <3>1 DEF TypeOK
  <2> QED BY <2>1, <2>2
<1>12. DrainedForGood'
  BY <1>0, <1>1, <1>2, <1>3, <1>10 DEF DrainedForGood, TypeOK
<1>13. NoCallbackInFreed'
  <2> SUFFICES ASSUME NEW j \in 1 .. count, ContextOf[identities[j]] \in freed
               PROVE  In(j)' = {} /\ retiring[j] /\ ~callable'[j]
    BY DEF NoCallbackInFreed
  <2>1. In(j) = {} /\ retiring[j] /\ ~callable[j] BY DEF NoCallbackInFreed
  <2>2. j # i BY <1>2, <2>1
  <2> QED BY <1>0, <1>3, <1>10, <2>1, <2>2 DEF TypeOK
<1> QED BY <1>8, <1>9, <1>11, <1>12, <1>13

\* Retirement reports drained only where the count is zero.
LEMMA RetireKeeps ==
    ASSUME IInv, NEW p \in Idents, net_device_retire(p) PROVE IInv'
<1> USE NetDeviceAssumption DEF NetDeviceAssumption, IInv
<1>1. PICK i \in 1 .. count :
        /\ retiring' = [retiring EXCEPT ![i] = TRUE]
        /\ IF references[i] = 0
             THEN /\ callable' = [callable EXCEPT ![i] = FALSE]
                  /\ drained' = drained \cup {i}
             ELSE UNCHANGED <<callable, drained>>
        /\ UNCHANGED <<identities, count, references, selected, sealed, entered, freed>>
  BY Zenon DEF net_device_retire
<1>2. i \in Slot /\ \A j \in 1 .. count : j \in Slot BY DEF TypeOK, Slot
<1>3. \A j : In(j)' = In(j) BY <1>1 DEF In
<1>4. references[i] = 0 <=> In(i) = {} BY <1>2, ZeroMeansEmpty
<1>5. TypeOK' BY <1>1, <1>2, Zenon DEF TypeOK
<1>6. ReferencesExact' BY <1>1, <1>3 DEF ReferencesExact
<1>7. DetachedWhenEmpty' BY <1>1, <1>2, <1>3, <1>4 DEF DetachedWhenEmpty, TypeOK
<1>8. DrainedForGood'
  <2> SUFFICES ASSUME NEW j \in drained' PROVE retiring'[j] /\ In(j) = {}
    BY <1>3 DEF DrainedForGood
  <2>1. CASE j = i /\ references[i] = 0 BY <1>1, <1>2, <1>4, <2>1 DEF TypeOK
  <2>2. CASE j \in drained BY <1>1, <1>2, <2>2 DEF DrainedForGood, TypeOK
  <2> QED BY <1>1, <2>1, <2>2
<1>9. NoCallbackInFreed' BY <1>1, <1>2, <1>3 DEF NoCallbackInFreed, TypeOK
<1> QED BY <1>5, <1>6, <1>7, <1>8, <1>9

\* A context is freed when all its slots are drained.
LEMMA ReclaimKeeps ==
    ASSUME IInv, NEW c \in Contexts, Reclaim(c) PROVE IInv'
<1> USE DEF IInv, Reclaim
<1>1. \A i : In(i)' = In(i) BY DEF In
<1>2. TypeOK' BY DEF TypeOK
<1>3. ReferencesExact' BY <1>1, Zenon DEF ReferencesExact
<1>4. DetachedWhenEmpty' BY <1>1 DEF DetachedWhenEmpty
<1>5. DrainedForGood' BY <1>1, Zenon DEF DrainedForGood
<1>6. NoCallbackInFreed'
  BY <1>1 DEF NoCallbackInFreed, DrainedForGood, DetachedWhenEmpty
<1> QED BY <1>2, <1>3, <1>4, <1>5, <1>6

LEMMA StutterKeeps == ASSUME IInv, UNCHANGED vars PROVE IInv'
<1> USE DEF IInv, vars
<1>1. \A i : In(i)' = In(i) BY DEF In
<1>2. TypeOK' BY DEF TypeOK
<1>3. ReferencesExact' BY <1>1 DEF ReferencesExact
<1>4. DetachedWhenEmpty' BY <1>1 DEF DetachedWhenEmpty
<1>5. DrainedForGood' BY <1>1 DEF DrainedForGood
<1>6. NoCallbackInFreed' BY <1>1 DEF NoCallbackInFreed
<1> QED BY <1>2, <1>3, <1>4, <1>5, <1>6

\* For any drivers and any callbacks in flight: the counts are exact, a
\* provider reported drained stays so, and no callback runs in a freed context.
THEOREM RegistryInvariant == Spec => []RegistrySound
<1>1. Init => IInv BY InitHolds
<1>2. IInv /\ [Next]_vars => IInv'
  <2> SUFFICES ASSUME IInv, [Next]_vars PROVE IInv' OBVIOUS
  <2>1. CASE UNCHANGED vars BY <2>1, StutterKeeps
  <2>2. ASSUME NEW p \in Idents, net_device_register(p) PROVE IInv' BY <2>2, RegisterKeeps
  <2>3. ASSUME NEW p \in Idents, net_device_retire(p) PROVE IInv' BY <2>3, RetireKeeps
  <2>4. CASE net_device_select BY <2>4, SelectKeeps
  <2>5. ASSUME NEW f \in Frames, NEW i \in 1 .. count, enter(f, i) PROVE IInv' BY <2>5, EnterKeeps
  <2>6. ASSUME NEW f \in Frames, leave(f) PROVE IInv' BY <2>6, LeaveKeeps
  <2>7. ASSUME NEW c \in Contexts, Reclaim(c) PROVE IInv' BY <2>7, ReclaimKeeps
  <2> QED BY <2>1, <2>2, <2>3, <2>4, <2>5, <2>6, <2>7 DEF Next
<1>3. IInv => RegistrySound
  BY DEF IInv, RegistrySound
<1> QED BY <1>1, <1>2, <1>3, PTL DEF Spec

=============================================================================
