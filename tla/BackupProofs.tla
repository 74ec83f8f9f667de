---------------------------- MODULE BackupProofs ----------------------------
(***************************************************************************)
(* Theorems about BackupRotation, for any number of jobs and backups: what *)
(* each job has deleted or is about to delete is a beginning of the list,  *)
(* and leaves keep - 1 backups.                                            *)
(***************************************************************************)
EXTENDS BackupRotation, FiniteSetTheorems, WellFoundedInduction, TLAPS

(* The types, values and flags apart.                                      *)
Values ==
  /\ now \in Nat
  /\ names \subseteq 0..now - 1
  /\ requested \subseteq 0..now - 1
  /\ pc \in [Jobs -> Phases]
  /\ num_backup \in [Jobs -> Nat]
  /\ num_delete \in [Jobs -> Int]
  /\ todo \in [Jobs -> SUBSET (0..now - 1)]
  /\ stuck \subseteq 0..now - 1

Flags == misread \in BOOLEAN /\ fault \in BOOLEAN /\ moved \in BOOLEAN

(* Deleted, or tried to.                                                   *)
Gone == requested \cup stuck

(* All that will be gone when job j has done its deletions.                *)
Doomed(j) == Gone \cup todo[j]

(* A beginning of the list.                                                *)
Beginning(W) == \A a \in names \ W, b \in W : b < a

(* What leaves enough.                                                     *)
Leaves(W) == W = {} \/ Cardinality(names \ W) >= Keep - 1

Ordered == Beginning(Gone) /\ \A j \in Jobs : Beginning(Doomed(j))

(* The number to delete still fits the list.                               *)
Fits ==
  ~misread /\ ~moved => \A j \in Jobs :
    /\ pc[j] = "label" => num_backup[j] <= Cardinality(names)
    /\ pc[j] = "list" => num_delete[j] <= Cardinality(names) - Keep + 1

Enough == ~misread /\ ~moved => Leaves(Gone) /\ \A j \in Jobs : Leaves(Doomed(j))

Inv == Values /\ Flags /\ Ordered /\ Fits /\ Enough

-----------------------------------------------------------------------------
(* The beginning of a list.                                                *)

LEMMA NamesFinite ==
  ASSUME Values
  PROVE  /\ IsFiniteSet(names) /\ Cardinality(names) \in Nat
         /\ \A S \in SUBSET names : IsFiniteSet(S) /\ Cardinality(S) \in Nat
<1>1. IsFiniteSet(0..now - 1)  BY FS_Interval DEF Values
<1>2. \A S \in SUBSET (0..now - 1) : IsFiniteSet(S)  BY <1>1, FS_Subset
<1>3. \A S \in SUBSET names : IsFiniteSet(S)  BY <1>2 DEF Values
<1> QED  BY <1>3, FS_CardinalityType

(* A nonempty set of naturals below n has a greatest element.              *)
LEMMA Greatest ==
  ASSUME NEW n \in Nat, NEW S \in SUBSET (0..n - 1), S # {}
  PROVE  \E m \in S : \A x \in S : x <= m
<1> DEFINE T == {n - 1 - x : x \in S}
<1>1. T \subseteq Nat /\ T # {}  OBVIOUS
<1>2. PICK t \in T : \A y \in T : ~(<<y, t>> \in OpToRel(<, Nat))
  BY <1>1, NatLessThanWellFounded, WFMin
<1>3. \A y \in T : ~(y < t)
  BY <1>1, <1>2 DEF OpToRel
<1>4. PICK m \in S : t = n - 1 - m  BY <1>2
<1>5. ASSUME NEW x \in S PROVE x <= m
  <2>1. n - 1 - x \in T  OBVIOUS
  <2>2. ~(n - 1 - x < n - 1 - m)  BY <1>3, <1>4, <2>1
  <2> QED  BY <2>2
<1> QED  BY <1>5

(* The first k lines are at most k, and come before all other lines.       *)
LEMMA FirstLines ==
  ASSUME Values, NEW k \in Int
  PROVE  /\ Oldest(k) \subseteq names
         /\ \A a \in names \ Oldest(k), b \in Oldest(k) : b < a
         /\ Oldest(k) # {} => Cardinality(Oldest(k)) <= k
<1>1. Oldest(k) \subseteq names  BY DEF Oldest
<1>2. \A a \in names : Older(a) \subseteq names /\ Cardinality(Older(a)) \in Nat
  BY NamesFinite DEF Older
<1>3. ASSUME NEW a \in names \ Oldest(k), NEW b \in Oldest(k) PROVE b < a
  <2>0. now \in Nat /\ \A x \in names : x \in 0..now - 1  BY DEF Values
  <2>1. a \in Int /\ b \in Int /\ \A x \in names : x \in Int  BY <1>1, <2>0
  <2>2. Cardinality(Older(b)) < k /\ ~(Cardinality(Older(a)) < k)  BY DEF Oldest
  <2>3. CASE a <= b
    <3>0. \A x \in names : x < a => x < b  BY <2>1, <2>3
    <3>1. Older(a) \subseteq Older(b)  BY <3>0 DEF Older
    <3>2. IsFiniteSet(Older(b))  BY <1>1, <1>2, NamesFinite
    <3>3. Cardinality(Older(a)) <= Cardinality(Older(b))  BY <3>1, <3>2, FS_Subset
    <3> QED  BY <1>1, <1>2, <2>2, <3>3
  <2> QED  BY <2>1, <2>3
<1>4. ASSUME Oldest(k) # {} PROVE Cardinality(Oldest(k)) <= k
  <2>1. Oldest(k) \in SUBSET (0..now - 1) /\ now \in Nat  BY <1>1 DEF Values
  <2>2. PICK m \in Oldest(k) : \A x \in Oldest(k) : x <= m  BY <1>4, <2>1, Greatest
  <2>3. Oldest(k) \ {m} \subseteq Older(m)
    BY <1>1, <2>1, <2>2 DEF Older
  <2>4. Cardinality(Older(m)) < k  BY <2>2 DEF Oldest
  <2>5. IsFiniteSet(Oldest(k)) /\ Cardinality(Oldest(k)) \in Nat  BY <1>1, NamesFinite
  <2>6. Cardinality(Oldest(k) \ {m}) = Cardinality(Oldest(k)) - 1
    BY <2>2, <2>5, FS_RemoveElement
  <2>7. IsFiniteSet(Older(m)) /\ Cardinality(Older(m)) \in Nat  BY <1>1, <1>2, NamesFinite
  <2>8. Cardinality(Oldest(k) \ {m}) <= Cardinality(Older(m))  BY <2>3, <2>7, FS_Subset
  <2> QED  BY <2>4, <2>5, <2>6, <2>7, <2>8
<1> QED  BY <1>1, <1>3, <1>4

(* Sets that leave at least as much.                                       *)
LEMMA LeavesMore ==
  ASSUME Values, NEW V, NEW W, Leaves(V), V # {}, names \ V \subseteq names \ W
  PROVE  Leaves(W)
<1>1. IsFiniteSet(names \ W)  BY NamesFinite
<1>2. Cardinality(names \ V) <= Cardinality(names \ W)  BY <1>1, FS_Subset
<1>3. Cardinality(names \ V) \in Nat /\ Cardinality(names \ W) \in Nat  BY NamesFinite
<1> QED  BY <1>2, <1>3, RotationAssumption DEF Leaves

-----------------------------------------------------------------------------
(* Steps.                                                                  *)

LEMMA Longer ==
  ASSUME NEW m \in Nat, NEW n \in Nat, m <= n
  PROVE  \A x \in 0..m - 1 : x \in 0..n - 1
OBVIOUS

LEMMA TypeStep ==
  ASSUME Values, Flags, [Next]_vars
  PROVE  Values' /\ Flags'
<1>1. CASE UNCHANGED vars  BY <1>1 DEF vars, Values, Flags
<1>2. ASSUME NEW j \in Jobs, Count(j) PROVE Values' /\ Flags'
  <2>1. Cardinality(names) \in Nat  BY NamesFinite
  <2> QED  BY <1>2, <2>1 DEF Count, Values, Flags, Phases
<1>3. ASSUME NEW j \in Jobs, ReadLabel(j) PROVE Values' /\ Flags'
  BY <1>3, RotationAssumption DEF ReadLabel, Surplus, Values, Flags, Phases
<1>4. ASSUME NEW j \in Jobs, List(j) PROVE Values' /\ Flags'
  <2>1. Oldest(num_delete[j]) \subseteq 0..now - 1  BY DEF Oldest, Values
  <2> QED  BY <1>4, <2>1 DEF List, Values, Flags, Phases
<1>5. ASSUME NEW j \in Jobs, NEW b \in todo[j], Delete(j, b) PROVE Values' /\ Flags'
  <2>1. b \in 0..now - 1 /\ todo' = [todo EXCEPT ![j] = @ \ {b}]
    BY <1>5 DEF Delete, Values
  <2>2. todo' \in [Jobs -> SUBSET (0..now - 1)]  BY <2>1 DEF Values
  <2> QED  BY <1>5, <2>1, <2>2 DEF Delete, Values, Flags, Phases
<1>6. ASSUME NEW j \in Jobs, DeleteAll(j) \/ Killed(j) PROVE Values' /\ Flags'
  BY <1>6 DEF DeleteAll, Killed, Values, Flags, Phases
<1>7. ASSUME NEW j \in Jobs, Create(j) PROVE Values' /\ Flags'
  <2>0. now \in Nat /\ names \subseteq 0..now - 1  BY DEF Values
  <2>1. \/ now' = now /\ names' = names
        \/ now' = now + 1 /\ names' = names \cup {now}
    BY <1>7 DEF Create
  <2>a. now' \in Nat /\ now <= now'  BY <2>0, <2>1
  <2>2. \A x \in 0..now - 1 : x \in 0..now' - 1  BY <2>0, <2>a, Longer
  <2>b. names' \subseteq 0..now' - 1
    <3>1. CASE now' = now /\ names' = names  BY <2>0, <3>1
    <3>2. CASE now' = now + 1 /\ names' = names \cup {now}
      <4>1. now \in 0..now' - 1  BY <2>0, <3>2
      <4> QED  BY <2>0, <2>2, <3>2, <4>1
    <3> QED  BY <2>1, <3>1, <3>2
  <2>3. requested' = requested /\ todo' = todo /\ stuck' = stuck  BY <1>7 DEF Create
  <2>4. todo' \in [Jobs -> SUBSET (0..now' - 1)]  BY <2>2, <2>3 DEF Values
  <2>5. requested' \subseteq 0..now' - 1 /\ stuck' \subseteq 0..now' - 1
    BY <2>2, <2>3 DEF Values
  <2> QED  BY <1>7, <2>a, <2>b, <2>4, <2>5 DEF Create, Values, Flags, Phases
<1>8. ASSUME NEW b \in names, Remove(b) PROVE Values' /\ Flags'
  BY <1>8 DEF Remove, Values, Flags, Phases
<1> QED  BY <1>1, <1>2, <1>3, <1>4, <1>5, <1>6, <1>7, <1>8 DEF Next

(* What a step does to the list, and to what is or will be deleted.        *)
LEMMA Steps ==
  ASSUME Values, [Next]_vars
  PROVE  \/ UNCHANGED <<names, now, requested, stuck, todo>>
         \/ \E j \in Jobs : List(j)
         \/ \E j \in Jobs : \E b \in todo[j] : Delete(j, b)
         \/ \E j \in Jobs : Killed(j)
         \/ /\ UNCHANGED <<requested, stuck, todo>>
            /\ names' = names \cup {now}
            /\ moved' = moved /\ misread' = misread
         \/ \E b \in names : Remove(b)
BY DEF Next, vars, Count, ReadLabel, DeleteAll, Create

LEMMA OrderedStep ==
  ASSUME Values, Ordered, [Next]_vars
  PROVE  Ordered'
<1> USE DEF Ordered, Beginning, Doomed, Gone
<1>1. CASE UNCHANGED <<names, now, requested, stuck, todo>>  BY <1>1
<1>2. ASSUME NEW j \in Jobs, List(j) PROVE Ordered'
  <2>1. UNCHANGED <<names, requested, stuck>>  BY <1>2 DEF List
  <2>2. PICK O \in {Oldest(num_delete[j]), {}} : todo' = [todo EXCEPT ![j] = O]
    BY <1>2 DEF List
  <2>3. \A a \in names \ O, b \in O : b < a
    BY FirstLines DEF Values
  <2>4. \A i \in Jobs : todo'[i] = IF i = j THEN O ELSE todo[i]  BY <2>2 DEF Values
  <2> QED  BY <2>1, <2>3, <2>4
<1>3. ASSUME NEW j \in Jobs, NEW b \in todo[j], Delete(j, b) PROVE Ordered'
  <2>1. names' = names /\ \A i \in Jobs : todo'[i] = IF i = j THEN todo[i] \ {b} ELSE todo[i]
    BY <1>3 DEF Delete, Values
  <2>2. Gone' = Gone \cup {b}  BY <1>3 DEF Delete
  <2>3. \A a \in names \ Gone' : b < a
    <3> SUFFICES ASSUME NEW a \in names, a \notin Gone, a # b PROVE b < a
      BY <2>2
    <3>1. CASE a \in todo[j]
      <4>1. b <= a  BY <1>3, <3>1 DEF Delete
      <4> QED  BY <4>1 DEF Values
    <3>2. CASE a \notin todo[j]  BY <3>2
    <3> QED  BY <3>1, <3>2
  <2>4. Beginning(Gone)'  BY <2>1, <2>2, <2>3
  <2>5. ASSUME NEW i \in Jobs PROVE Beginning(Doomed(i))'
    <3>1. Doomed(i)' = Doomed(i) \cup {b}  BY <2>1, <2>2
    <3> QED  BY <2>1, <2>2, <2>3, <3>1
  <2> QED  BY <2>4, <2>5
<1>4. ASSUME NEW j \in Jobs, Killed(j) PROVE Ordered'
  <2>1. UNCHANGED <<names, requested, stuck>>  BY <1>4 DEF Killed
  <2>2. \A i \in Jobs : todo'[i] = IF i = j THEN {} ELSE todo[i]
    BY <1>4 DEF Killed, Values
  <2> QED  BY <2>1, <2>2
<1>5. CASE UNCHANGED <<requested, stuck, todo>> /\ names' = names \cup {now}
  <2>1. \A b \in Gone : b < now  BY DEF Values
  <2>2. \A j \in Jobs : \A b \in todo[j] : b < now  BY DEF Values
  <2> QED  BY <1>5, <2>1, <2>2
<1>6. ASSUME NEW b \in names, Remove(b) PROVE Ordered'
  BY <1>6 DEF Remove
<1> QED  BY <1>1, <1>2, <1>3, <1>4, <1>5, <1>6, Steps

LEMMA FitsStep ==
  ASSUME Inv, [Next]_vars
  PROVE  Fits'
<1> SUFFICES ASSUME (~misread /\ ~moved)', NEW j \in Jobs
             PROVE  /\ (pc[j] = "label" => num_backup[j] <= Cardinality(names))'
                    /\ (pc[j] = "list" => num_delete[j] <= Cardinality(names) - Keep + 1)'
  BY DEF Fits
<1>0. Cardinality(names) \in Nat  BY NamesFinite DEF Inv
<1>h. ~misread /\ ~moved =>
        /\ pc[j] = "label" => num_backup[j] <= Cardinality(names)
        /\ pc[j] = "list" => num_delete[j] <= Cardinality(names) - Keep + 1
  BY DEF Inv, Fits
<1>1. CASE UNCHANGED vars  BY <1>1, <1>h DEF vars
<1>2. ASSUME NEW i \in Jobs, Count(i)
      PROVE /\ (pc[j] = "label" => num_backup[j] <= Cardinality(names))'
            /\ (pc[j] = "list" => num_delete[j] <= Cardinality(names) - Keep + 1)'
  <2>1. UNCHANGED <<names, misread, moved, num_delete>>  BY <1>2 DEF Count
  <2>2. CASE j = i  BY <1>0, <1>2, <2>1, <2>2 DEF Count, Inv, Values
  <2>3. CASE j # i
    BY <1>2, <1>h, <2>1, <2>3 DEF Count, Inv, Values
  <2> QED  BY <2>2, <2>3
<1>3. ASSUME NEW i \in Jobs, ReadLabel(i)
      PROVE /\ (pc[j] = "label" => num_backup[j] <= Cardinality(names))'
            /\ (pc[j] = "list" => num_delete[j] <= Cardinality(names) - Keep + 1)'
  <2>1. UNCHANGED <<names, moved, num_backup>> /\ ~misread
    BY <1>3 DEF ReadLabel
  <2>2. CASE j = i
    <3>1. PICK keep \in {Keep, 0} :
            /\ num_delete' = [num_delete EXCEPT ![i] = Surplus(num_backup[i], keep)]
            /\ misread' = (misread \/ keep # Keep)
      BY <1>3 DEF ReadLabel
    <3>2. keep = Keep  BY <3>1
    <3>3. num_delete'[j] = num_backup[j] - Keep + 1 /\ num_backup[j] \in Nat
      BY <2>2, <3>1, <3>2 DEF Inv, Values, Surplus
    <3>4. pc[j] = "label" /\ pc'[j] = "list"  BY <1>3, <2>2 DEF ReadLabel, Inv, Values
    <3> QED  BY <1>0, <1>h, <2>1, <3>3, <3>4, RotationAssumption
  <2>3. CASE j # i
    BY <1>3, <1>h, <2>1, <2>3 DEF ReadLabel, Inv, Values
  <2> QED  BY <2>2, <2>3
<1>4. ASSUME NEW i \in Jobs, List(i) \/ DeleteAll(i) \/ Killed(i)
      PROVE /\ (pc[j] = "label" => num_backup[j] <= Cardinality(names))'
            /\ (pc[j] = "list" => num_delete[j] <= Cardinality(names) - Keep + 1)'
  <2>1. UNCHANGED <<names, moved, misread, num_backup, num_delete>>
    BY <1>4 DEF List, DeleteAll, Killed
  <2>2. pc'[j] \in {"label", "list"} => pc'[j] = pc[j]
    BY <1>4 DEF List, DeleteAll, Killed, Inv, Values
  <2> QED  BY <1>h, <2>1, <2>2
<1>5. ASSUME NEW i \in Jobs, NEW b \in todo[i], Delete(i, b)
      PROVE /\ (pc[j] = "label" => num_backup[j] <= Cardinality(names))'
            /\ (pc[j] = "list" => num_delete[j] <= Cardinality(names) - Keep + 1)'
  BY <1>5, <1>h DEF Delete
<1>6. ASSUME NEW i \in Jobs, Create(i)
      PROVE /\ (pc[j] = "label" => num_backup[j] <= Cardinality(names))'
            /\ (pc[j] = "list" => num_delete[j] <= Cardinality(names) - Keep + 1)'
  <2>1. UNCHANGED <<moved, misread, num_backup, num_delete>>  BY <1>6 DEF Create
  <2>2. pc'[j] \in {"label", "list"} => pc'[j] = pc[j]
    BY <1>6 DEF Create, Inv, Values
  <2>3. names' = names \/ names' = names \cup {now}  BY <1>6 DEF Create
  <2>4. Cardinality(names') \in Nat /\ Cardinality(names) <= Cardinality(names')
    BY <1>0, <2>3, NamesFinite, FS_AddElement, FS_CardinalityType DEF Inv
  <2>5. num_backup[j] \in Nat /\ num_delete[j] \in Int  BY DEF Inv, Values
  <2> QED  BY <1>0, <1>h, <2>1, <2>2, <2>4, <2>5, RotationAssumption
<1>7. ASSUME NEW b \in names, Remove(b)
      PROVE /\ (pc[j] = "label" => num_backup[j] <= Cardinality(names))'
            /\ (pc[j] = "list" => num_delete[j] <= Cardinality(names) - Keep + 1)'
  <2>1. pc[j] \notin {"label", "list"}  BY <1>7 DEF Remove
  <2> QED  BY <1>7, <2>1 DEF Remove
<1> QED  BY <1>1, <1>2, <1>3, <1>4, <1>5, <1>6, <1>7 DEF Next

LEMMA EnoughStep ==
  ASSUME Inv, [Next]_vars
  PROVE  Enough'
<1> SUFFICES ASSUME (~misread /\ ~moved)'
             PROVE  Leaves(Gone)' /\ \A j \in Jobs : Leaves(Doomed(j))'
  BY DEF Enough
<1>1. ~misread /\ ~moved
  <2>1. CASE UNCHANGED <<misread, moved>>  BY <2>1
  <2>2. ASSUME NEW j \in Jobs, ReadLabel(j) PROVE ~misread /\ ~moved
    BY <2>2 DEF ReadLabel
  <2>3. ASSUME NEW b \in names, Remove(b) PROVE ~misread /\ ~moved
    BY <2>3 DEF Remove
  <2>4. \/ UNCHANGED <<misread, moved>>
        \/ \E j \in Jobs : ReadLabel(j)
        \/ \E b \in names : Remove(b)
    BY DEF Next, vars, Count, List, Delete, DeleteAll, Create, Killed
  <2> QED  BY <2>1, <2>2, <2>3, <2>4
<1>2. Leaves(Gone) /\ \A j \in Jobs : Leaves(Doomed(j))  BY <1>1 DEF Inv, Enough
<1>3. Values /\ Beginning(Gone) /\ \A j \in Jobs : Beginning(Doomed(j))
  BY DEF Inv, Ordered
<1>4. CASE UNCHANGED <<names, now, requested, stuck, todo>>
  BY <1>2, <1>4 DEF Leaves, Doomed, Gone
<1>5. ASSUME NEW j \in Jobs, List(j)
      PROVE Leaves(Gone)' /\ \A i \in Jobs : Leaves(Doomed(i))'
  <2>1. names' = names /\ Gone' = Gone  BY <1>5 DEF List, Gone
  <2>2. PICK O \in {Oldest(num_delete[j]), {}} : todo' = [todo EXCEPT ![j] = O]
    BY <1>5 DEF List
  <2>3. \A i \in Jobs \ {j} : Doomed(i)' = Doomed(i)
    BY <2>1, <2>2, <1>3 DEF Doomed, Values
  <2>4. Doomed(j)' = Gone \cup O  BY <2>1, <2>2, <1>3 DEF Doomed, Values
  <2>5. Leaves(Gone \cup O)
    <3>1. CASE O \subseteq Gone
      <4>1. Gone \cup O = Gone  BY <3>1
      <4> QED  BY <1>2, <4>1
    <3>2. CASE ~(O \subseteq Gone)
      <4>1. /\ O = Oldest(num_delete[j]) /\ O # {} /\ num_delete[j] \in Int
        BY <1>3, <3>2 DEF Values
      <4>2. /\ O \subseteq names /\ Cardinality(O) <= num_delete[j]
            /\ \A a \in names \ O, b \in O : b < a
        BY <1>3, <4>1, FirstLines
      <4>3. pc[j] = "list"  BY <1>5 DEF List
      <4>4. num_delete[j] <= Cardinality(names) - Keep + 1
        BY <1>1, <4>3 DEF Inv, Fits
      <4>5. PICK b \in O : b \notin Gone  BY <3>2
      <4>6. \A g \in names : g \in Gone => g \in O
        <5> SUFFICES ASSUME NEW g \in names, g \in Gone, g \notin O PROVE FALSE
          OBVIOUS
        <5>1. b < g /\ g < b  BY <1>3, <4>2, <4>5 DEF Beginning
        <5>2. b \in Int /\ g \in Int  BY <1>3, <4>2 DEF Values
        <5> QED  BY <5>1, <5>2
      <4>7. names \ (Gone \cup O) = names \ O  BY <4>6
      <4>8. /\ Cardinality(names \ O) = Cardinality(names) - Cardinality(names \cap O)
            /\ names \cap O = O
        BY <1>3, <4>2, NamesFinite, FS_Difference
      <4>9. Cardinality(names) \in Nat /\ Cardinality(O) \in Nat
        BY <1>3, <4>2, NamesFinite
      <4>10. Cardinality(names \ O) >= Keep - 1
        BY <4>1, <4>2, <4>4, <4>8, <4>9, RotationAssumption
      <4> QED  BY <4>7, <4>10 DEF Leaves
    <3> QED  BY <3>1, <3>2
  <2> QED  BY <1>2, <2>1, <2>3, <2>4, <2>5 DEF Leaves
<1>6. ASSUME NEW j \in Jobs, NEW b \in todo[j], Delete(j, b)
      PROVE Leaves(Gone)' /\ \A i \in Jobs : Leaves(Doomed(i))'
  <2>1. names' = names /\ Gone' = Gone \cup {b}  BY <1>6 DEF Delete, Gone
  <2>2. \A i \in Jobs : todo'[i] = IF i = j THEN todo[i] \ {b} ELSE todo[i]
    BY <1>3, <1>6 DEF Delete, Values
  <2>3. \A i \in Jobs : Doomed(i)' = Doomed(i) \cup {b}  BY <2>1, <2>2 DEF Doomed
  <2>4. Leaves(Doomed(j)) /\ b \in Doomed(j)  BY <1>2 DEF Doomed
  <2>5. Leaves(Gone \cup {b})
    <3>1. names \ Doomed(j) \subseteq names \ (Gone \cup {b})  BY DEF Doomed
    <3> QED  BY <1>3, <2>4, <3>1, LeavesMore
  <2>6. ASSUME NEW i \in Jobs PROVE Leaves(Doomed(i) \cup {b})
    <3>1. CASE names \cap {b} \subseteq Doomed(i) /\ Doomed(i) # {}
      <4>1. names \ Doomed(i) \subseteq names \ (Doomed(i) \cup {b})  BY <3>1
      <4> QED  BY <1>2, <1>3, <3>1, <4>1, LeavesMore
    <3>2. CASE Doomed(i) = {}
      <4>1. names \ Doomed(j) \subseteq names \ (Doomed(i) \cup {b})  BY <2>4, <3>2
      <4> QED  BY <1>3, <2>4, <4>1, LeavesMore
    <3>3. CASE b \in names /\ b \notin Doomed(i)
      <4>1. ASSUME NEW x \in names, x \notin Doomed(j) PROVE x \notin Doomed(i)
        <5>1. x \in Int /\ b \in Int  BY <1>3, <3>3 DEF Values
        <5>2. b < x  BY <1>3, <2>4, <4>1 DEF Beginning
        <5>3. x \in Doomed(i) => x < b  BY <1>3, <3>3 DEF Beginning
        <5> QED  BY <5>1, <5>2, <5>3
      <4>2. names \ Doomed(j) \subseteq names \ (Doomed(i) \cup {b})  BY <2>4, <4>1
      <4> QED  BY <1>3, <2>4, <4>2, LeavesMore
    <3> QED  BY <3>1, <3>2, <3>3
  <2> QED  BY <2>1, <2>3, <2>5, <2>6 DEF Leaves
<1>7. ASSUME NEW j \in Jobs, Killed(j)
      PROVE Leaves(Gone)' /\ \A i \in Jobs : Leaves(Doomed(i))'
  <2>1. names' = names /\ Gone' = Gone  BY <1>7 DEF Killed, Gone
  <2>2. \A i \in Jobs : Doomed(i)' = IF i = j THEN Gone ELSE Doomed(i)
    BY <1>3, <1>7, <2>1 DEF Killed, Values, Doomed
  <2> QED  BY <1>2, <2>1, <2>2 DEF Leaves
<1>8. CASE UNCHANGED <<requested, stuck, todo>> /\ names' = names \cup {now}
  <2>1. Gone' = Gone /\ \A i \in Jobs : Doomed(i)' = Doomed(i)
    BY <1>8 DEF Gone, Doomed
  <2>2. ASSUME NEW W, Leaves(W), W \subseteq 0..now - 1
        PROVE W = {} \/ Cardinality(names' \ W) >= Keep - 1
    <3>1. IsFiniteSet(names \ W) /\ Cardinality(names \ W) \in Nat
      BY <1>3, NamesFinite
    <3>2. now \notin 0..now - 1  BY <1>3 DEF Values
    <3>3. names' \ W = (names \ W) \cup {now}
      <4>1. now \notin W  BY <2>2, <3>2
      <4> QED  BY <1>8, <4>1
    <3>4. Cardinality(names' \ W) >= Cardinality(names \ W)
      <4>1. Cardinality((names \ W) \cup {now}) =
              IF now \in names \ W THEN Cardinality(names \ W) ELSE Cardinality(names \ W) + 1
        BY <3>1, FS_AddElement
      <4>2. Cardinality((names \ W) \cup {now}) >= Cardinality(names \ W)
        <5> DEFINE c == Cardinality(names \ W)
        <5>1. c \in Nat  BY <3>1
        <5>2. \/ Cardinality((names \ W) \cup {now}) = c
              \/ Cardinality((names \ W) \cup {now}) = c + 1
          BY <4>1
        <5> HIDE DEF c
        <5>3. c >= c /\ c + 1 >= c  BY <5>1
        <5>4. Cardinality((names \ W) \cup {now}) >= c  BY <5>2, <5>3
        <5> QED  BY <5>4 DEF c
      <4> QED  BY <3>3, <4>2
    <3>5. Cardinality(names' \ W) \in Nat
      BY <3>1, <3>3, FS_AddElement, FS_CardinalityType
    <3>6. W = {} \/ Cardinality(names \ W) >= Keep - 1  BY <2>2 DEF Leaves
    <3> QED  BY <3>1, <3>4, <3>5, <3>6, RotationAssumption
  <2>3. Gone \subseteq 0..now - 1 /\ \A i \in Jobs : Doomed(i) \subseteq 0..now - 1
    BY <1>3 DEF Gone, Doomed, Values
  <2> QED  BY <1>2, <2>1, <2>2, <2>3 DEF Leaves
<1>9. ASSUME NEW b \in names, Remove(b)
      PROVE Leaves(Gone)' /\ \A i \in Jobs : Leaves(Doomed(i))'
  <2>1. names' = names \ {b} /\ b \in requested /\ UNCHANGED <<requested, stuck, todo>>
    BY <1>9 DEF Remove
  <2>2. /\ Gone' = Gone /\ names' \ Gone = names \ Gone
        /\ \A i \in Jobs : Doomed(i)' = Doomed(i) /\ names' \ Doomed(i) = names \ Doomed(i)
    BY <2>1 DEF Gone, Doomed
  <2> QED  BY <1>2, <2>2 DEF Leaves
<1> QED  BY <1>3, <1>4, <1>5, <1>6, <1>7, <1>8, <1>9, Steps

-----------------------------------------------------------------------------
LEMMA RotationInvariant == Spec => []Inv
<1>1. Init => Inv
  <2> SUFFICES ASSUME Init PROVE Inv  OBVIOUS
  <2>1. now \in Nat  BY RotationAssumption DEF Init
  <2>2. Values /\ Flags
    <3>1. names = 0..now - 1 /\ requested = {} /\ stuck = {}  BY DEF Init
    <3>2. pc \in [Jobs -> Phases] /\ todo \in [Jobs -> SUBSET (0..now - 1)]
      BY DEF Init, Phases
    <3>3. num_backup \in [Jobs -> Nat] /\ num_delete \in [Jobs -> Int]  BY DEF Init
    <3>4. Flags  BY DEF Init, Flags
    <3> QED  BY <2>1, <3>1, <3>2, <3>3, <3>4 DEF Values
  <2>3. Gone = {} /\ \A j \in Jobs : Doomed(j) = {} /\ pc[j] = "idle"
    BY DEF Init, Gone, Doomed
  <2> QED  BY <2>2, <2>3 DEF Inv, Ordered, Beginning, Fits, Enough, Leaves
<1>2. Inv /\ [Next]_vars => Inv'
  BY TypeStep, OrderedStep, FitsStep, EnoughStep DEF Inv
<1> QED  BY <1>1, <1>2, PTL DEF Spec

(* Every variable of BackupRotation keeps its type.                        *)
THEOREM RotationTypes == Spec => []TypeOK
<1>1. Inv => TypeOK  BY DEF Inv, Values, Flags, TypeOK
<1> QED  BY <1>1, RotationInvariant, PTL

(* What is deleted is older than what stays (head of the list).            *)
THEOREM NewestBackupsSurvive == Spec => []NewestSurvive
<1>1. Inv => NewestSurvive
  BY DEF Inv, Ordered, Beginning, Gone, Kept, NewestSurvive
<1> QED  BY <1>1, RotationInvariant, PTL

(* Overlapping, broken-off and repeated jobs leave keep - 1 backups, if    *)
(* none is removed between a job's count and its list.                     *)
THEOREM EnoughBackupsKept == Spec => []EnoughKept
<1>1. ASSUME Inv PROVE EnoughKept
  <2> SUFFICES ASSUME ~misread, ~moved, requested # {}
               PROVE  Cardinality(Kept) >= Keep - 1
    BY DEF EnoughKept
  <2>1. Values /\ Leaves(Gone)  BY <1>1 DEF Inv, Enough
  <2>2. Gone # {} /\ names \ Gone \subseteq names \ requested  BY DEF Gone
  <2>3. Leaves(requested)  BY <2>1, <2>2, LeavesMore
  <2> QED  BY <2>3 DEF Leaves, Kept
<1> QED  BY <1>1, RotationInvariant, PTL

-----------------------------------------------------------------------------
(* Jobs that nothing disturbs.                                             *)

(* What a job leaves before it creates a backup, and all of them in the    *)
(* end.                                                                    *)
Rest  == IF now < Keep THEN now ELSE IF Keep = 0 THEN 0 ELSE Keep - 1
Final == IF now < Keep THEN now ELSE IF Keep = 0 THEN 1 ELSE Keep

Deleting(j) == pc[j] \in {"delete", "create"}

(* Between two jobs: as many as the last one left, or nothing has happened *)
(* yet.                                                                    *)
Settled ==
  \/ Cardinality(Kept) = Final
  \/ Cardinality(Kept) = now /\ \A j \in Jobs : pc[j] # "done"

(* There is one job at a time, what it has read still holds, and once it   *)
(* has listed the backups it is clear how many will be left.               *)
OneJob ==
  /\ stuck = {}
  /\ \A i, j \in Jobs : Active(i) /\ Active(j) => i = j
  /\ \A j \in Jobs : todo[j] # {} => pc[j] = "delete"

UpToDate ==
  \A j \in Jobs :
    /\ pc[j] = "label" => num_backup[j] = Cardinality(names)
    /\ pc[j] = "list" => num_delete[j] = Cardinality(names) - Keep + 1

Counts ==
  /\ \A j \in Jobs : Deleting(j) => Cardinality(names \ Doomed(j)) = Rest
  /\ (\A j \in Jobs : ~Deleting(j)) => Settled

Quiet == ~fault /\ ~moved

Steady == Quiet => OneJob /\ UpToDate /\ Counts

(* Enough lines, or the whole list.                                        *)
LEMMA LinesEnough ==
  ASSUME Values, NEW k \in Int, Oldest(k) # names
  PROVE  Cardinality(Oldest(k)) >= k
<1> DEFINE T == names \ Oldest(k)
<1>1. T # {} /\ T \subseteq names  BY FirstLines
<1>2. \A x \in names : x \in 0..now - 1 /\ now \in Nat  BY DEF Values
<1>3. T \subseteq Nat  BY <1>1, <1>2
<1>4. PICK m \in T : \A y \in T : ~(<<y, m>> \in OpToRel(<, Nat))
  BY <1>1, <1>3, NatLessThanWellFounded, WFMin
<1>5. \A y \in T : ~(y < m)  BY <1>3, <1>4 DEF OpToRel
<1>6. Older(m) \subseteq Oldest(k)
  <2>1. \A a \in names : a < m => a \notin T  BY <1>5
  <2> QED  BY <2>1 DEF Older
<1>7. ~(Cardinality(Older(m)) < k)  BY <1>4 DEF Oldest
<1>8. Oldest(k) \subseteq names /\ Older(m) \subseteq names  BY FirstLines DEF Older
<1>9. /\ IsFiniteSet(Oldest(k)) /\ Cardinality(Oldest(k)) \in Nat
      /\ Cardinality(Older(m)) \in Nat
  BY <1>8, NamesFinite
<1>10. Cardinality(Older(m)) <= Cardinality(Oldest(k))  BY <1>6, <1>9, FS_Subset
<1> QED  BY <1>7, <1>9, <1>10

(* What a job leaves that lists the backups as they were counted: as many  *)
(* as it should, whatever the job before has still to see removed.         *)
LEMMA LeftByList ==
  ASSUME Values, Settled, stuck = {}, Beginning(Gone),
         NEW k \in Int, k = Cardinality(names) - Keep + 1
  PROVE  Cardinality(names \ (Gone \cup Oldest(k))) = Rest
<1> DEFINE O == Oldest(k)
           N == Cardinality(names)
<1>1. O \subseteq names /\ \A a \in names \ O, b \in O : b < a  BY FirstLines
<1>2. O # {} => Cardinality(O) <= k  BY FirstLines
<1>3. O # names => Cardinality(O) >= k  BY LinesEnough
<1>4. N \in Nat /\ Cardinality(O) \in Nat /\ Cardinality(Kept) \in Nat
  BY <1>1, NamesFinite DEF Kept
<1>5. now \in Nat /\ Keep \in Nat /\ Gone = requested
  BY RotationAssumption DEF Values, Gone
<1>6. N <= now
  <2>0. 0 \in Int /\ now - 1 \in Int  BY <1>5
  <2>a. /\ IsFiniteSet(0..now - 1)
        /\ Cardinality(0..now - 1) = IF 0 > now - 1 THEN 0 ELSE (now - 1) - 0 + 1
    BY <2>0, FS_Interval
  <2>1. IsFiniteSet(0..now - 1) /\ Cardinality(0..now - 1) = now  BY <1>5, <2>a
  <2> QED  BY <1>5, <2>1, FS_Subset DEF Values
<1>7. Cardinality(names \ O) = N - Cardinality(O)
  <2>1. names \cap O = O  BY <1>1
  <2>2. IsFiniteSet(names) /\ IsFiniteSet(O)  BY <1>1, NamesFinite
  <2>3. Cardinality(names \ O) = Cardinality(names) - Cardinality(names \cap O)
    BY <2>2, FS_Difference
  <2> QED  BY <2>1, <2>3
<1>8. O = names => Cardinality(O) = N  OBVIOUS
<1>9. CASE O \subseteq Gone
  <2>1. names \ (Gone \cup O) = Kept  BY <1>5, <1>9 DEF Kept
  <2> DEFINE c == Cardinality(Kept)
  <2>2. c \in Nat /\ (c = Final \/ c = now)  BY <1>4 DEF Settled
  <2>3. CASE O = names
    <3>1. Kept = {}  BY <1>5, <1>9, <2>3 DEF Kept
    <3>2. Cardinality(Kept) = 0  BY <3>1, FS_EmptySet
    <3>3. c = 0  BY <3>2
    <3>4. c = Rest
      <4> HIDE DEF c
      <4> QED  BY <1>5, <2>2, <3>3 DEF Final, Rest
    <3> QED  BY <2>1, <3>4
  <2>4. CASE O # names
    <3>1. Kept \subseteq names \ O  BY <1>5, <1>9 DEF Kept
    <3>2. IsFiniteSet(names \ O)  BY NamesFinite
    <3>3. Cardinality(Kept) <= Cardinality(names \ O)  BY <3>1, <3>2, FS_Subset
    <3>4. Cardinality(Kept) <= Keep - 1
      <4> HIDE DEF O
      <4> QED  BY <1>3, <1>4, <1>5, <1>7, <2>4, <3>3
    <3>5. c <= Keep - 1  BY <3>4
    <3>6. c = Rest
      <4> HIDE DEF c
      <4> QED  BY <1>5, <2>2, <3>5 DEF Final, Rest
    <3> QED  BY <2>1, <3>6
  <2> QED  BY <2>3, <2>4
<1>10. CASE ~(O \subseteq Gone)
  <2>1. PICK b \in O : b \notin Gone  BY <1>10
  <2>2. \A g \in names : g \in Gone => g \in O
    <3> SUFFICES ASSUME NEW g \in names, g \in Gone, g \notin O PROVE FALSE
      OBVIOUS
    <3>1. b < g /\ g < b  BY <1>1, <2>1 DEF Beginning
    <3>2. b \in names /\ \A x \in names : x \in Int  BY <1>1 DEF Values
    <3> QED  BY <3>1, <3>2
  <2>3. names \ (Gone \cup O) = names \ O  BY <2>2
  <2>4. O # {} /\ Cardinality(O) # 0
    <3>1. IsFiniteSet(O)  BY <1>1, NamesFinite
    <3> QED  BY <2>1, <3>1, FS_EmptySet
  <2>5. Cardinality(O) <= k  BY <1>2, <2>4
  <2>6. CASE O = names
    <3>1. Cardinality(names \ O) = Rest
      <4> HIDE DEF O
      <4> QED  BY <1>4, <1>5, <1>6, <1>7, <1>8, <2>4, <2>5, <2>6 DEF Rest
    <3> QED  BY <2>3, <3>1
  <2>7. CASE O # names
    <3>1. Cardinality(O) = k  BY <1>3, <1>4, <2>5, <2>7
    <3>2. Cardinality(O) <= N  BY <1>1, NamesFinite, FS_Subset
    <3>3. N <= now /\ Cardinality(names \ O) = Keep - 1
      <4> HIDE DEF O
      <4> QED  BY <1>4, <1>5, <1>6, <1>7, <3>1
    <3>4. Cardinality(names \ O) = Rest
      <4> HIDE DEF O
      <4> QED  BY <1>4, <1>5, <2>4, <3>1, <3>2, <3>3 DEF Rest
    <3> QED  BY <2>3, <3>4
  <2> QED  BY <2>6, <2>7
<1> QED  BY <1>9, <1>10


LEMMA QuietBack ==
  ASSUME [Next]_vars, Quiet'
  PROVE  Quiet
<1> SUFFICES ASSUME ~fault', ~moved' PROVE ~fault /\ ~moved
  BY DEF Quiet
<1>1. CASE UNCHANGED vars  BY <1>1 DEF vars
<1>2. ASSUME NEW j \in Jobs, Count(j) PROVE ~fault /\ ~moved
  BY <1>2 DEF Count
<1>a. ASSUME NEW j \in Jobs, ReadLabel(j) PROVE ~fault /\ ~moved
  BY <1>a DEF ReadLabel
<1>b. ASSUME NEW j \in Jobs, List(j) PROVE ~fault /\ ~moved
  BY <1>b DEF List
<1>3. ASSUME NEW j \in Jobs, NEW b \in todo[j], Delete(j, b) PROVE ~fault /\ ~moved
  BY <1>3 DEF Delete
<1>4. ASSUME NEW j \in Jobs, DeleteAll(j) \/ Create(j) \/ Killed(j) PROVE ~fault /\ ~moved
  BY <1>4 DEF DeleteAll, Create, Killed
<1>5. ASSUME NEW b \in names, Remove(b) PROVE ~fault /\ ~moved
  BY <1>5 DEF Remove
<1> QED  BY <1>1, <1>2, <1>a, <1>b, <1>3, <1>4, <1>5 DEF Next

LEMMA SteadyStep ==
  ASSUME Inv, Steady, [Next]_vars
  PROVE  Steady'
<1> SUFFICES ASSUME Quiet' PROVE OneJob' /\ UpToDate' /\ Counts'
  BY DEF Steady
<1>1. Quiet /\ OneJob /\ UpToDate /\ Counts  BY QuietBack DEF Steady
<1>2. Values /\ Beginning(Gone)  BY DEF Inv, Ordered
<1>3. ~fault' /\ ~moved'  BY DEF Quiet
<1>4. ASSUME NEW j \in Jobs, Active(j), NEW i \in Jobs, i # j
      PROVE  pc[i] \notin {"label", "list", "delete", "create"} /\ todo[i] = {}
  BY <1>1, <1>4 DEF OneJob, Active
<1>5. CASE UNCHANGED vars
  BY <1>1, <1>5 DEF vars, OneJob, UpToDate, Counts, Deleting, Active, Doomed, Gone, Settled,
                    Final, Rest, Kept
<1>6. ASSUME NEW j \in Jobs, Count(j) PROVE OneJob' /\ UpToDate' /\ Counts'
  <2>1. /\ UNCHANGED <<names, requested, now, stuck, todo>>
        /\ \A i \in Jobs : pc'[i] = IF i = j THEN "label" ELSE pc[i]
        /\ num_backup' = [num_backup EXCEPT ![j] = Cardinality(names)]
        /\ \A i \in Jobs : ~Active(i)
    BY <1>2, <1>3, <1>6 DEF Count, Values
  <2>2. \A i \in Jobs : todo[i] = {} /\ pc[i] \in {"idle", "done"}
    BY <1>1, <2>1 DEF OneJob, Active
  <2>3. OneJob'  BY <1>1, <2>1, <2>2 DEF OneJob, Active
  <2>4. UpToDate'  BY <1>2, <2>1, <2>2 DEF UpToDate, Values
  <2>5. Settled  BY <1>1, <2>2 DEF Counts, Deleting
  <2>6. Settled'  BY <2>1, <2>5 DEF Settled, Kept, Final
  <2> QED  BY <2>1, <2>2, <2>3, <2>4, <2>6 DEF Counts, Deleting
<1>7. ASSUME NEW j \in Jobs, ReadLabel(j) PROVE OneJob' /\ UpToDate' /\ Counts'
  <2>0. pc[j] = "label" /\ Active(j)  BY <1>7 DEF ReadLabel, Active
  <2>1. /\ UNCHANGED <<names, requested, now, stuck, todo>>
        /\ \A i \in Jobs : pc'[i] = IF i = j THEN "list" ELSE pc[i]
        /\ num_delete' = [num_delete EXCEPT ![j] = num_backup[j] - Keep + 1]
    BY <1>2, <1>3, <1>7 DEF ReadLabel, Surplus, Values
  <2>2. num_backup[j] = Cardinality(names)  BY <1>1, <2>0 DEF UpToDate
  <2>3. OneJob'  BY <1>1, <1>4, <2>0, <2>1 DEF OneJob, Active
  <2>4. UpToDate'  BY <1>2, <1>4, <2>0, <2>1, <2>2 DEF UpToDate, Values
  <2>5. Settled  BY <1>1, <1>4, <2>0 DEF Counts, Deleting
  <2>6. Settled'  BY <2>1, <2>5 DEF Settled, Kept, Final
  <2>7. \A i \in Jobs : ~(pc'[i] \in {"delete", "create"})  BY <1>4, <2>0, <2>1
  <2> QED  BY <2>3, <2>4, <2>6, <2>7 DEF Counts, Deleting
<1>8. ASSUME NEW j \in Jobs, List(j) PROVE OneJob' /\ UpToDate' /\ Counts'
  <2>0. pc[j] = "list" /\ Active(j)  BY <1>8 DEF List, Active
  <2> DEFINE O == Oldest(num_delete[j])
  <2>1. /\ UNCHANGED <<names, requested, now, stuck>>
        /\ \A i \in Jobs : pc'[i] = IF i = j THEN "delete" ELSE pc[i]
        /\ \A i \in Jobs : todo'[i] = IF i = j THEN O ELSE todo[i]
    BY <1>2, <1>3, <1>8 DEF List, Values
  <2>2. num_delete[j] \in Int /\ num_delete[j] = Cardinality(names) - Keep + 1
    BY <1>1, <1>2, <2>0 DEF UpToDate, Values
  <2>3. OneJob'  BY <1>1, <1>4, <2>0, <2>1 DEF OneJob, Active
  <2>4. UpToDate'  BY <1>4, <2>0, <2>1 DEF UpToDate
  <2>5. Settled  BY <1>1, <1>4, <2>0 DEF Counts, Deleting
  <2>6. Cardinality(names \ (Gone \cup O)) = Rest
    BY <1>1, <1>2, <2>2, <2>5, LeftByList DEF OneJob
  <2>7. names' \ Doomed(j)' = names \ (Gone \cup O) /\ Rest' = Rest
    BY <2>1 DEF Doomed, Gone, Rest
  <2>8. \A i \in Jobs \ {j} : ~Deleting(i)'  BY <1>4, <2>0, <2>1 DEF Deleting
  <2>9. Deleting(j)'  BY <2>1 DEF Deleting
  <2> QED  BY <2>3, <2>4, <2>6, <2>7, <2>8, <2>9 DEF Counts
<1>9. ASSUME NEW j \in Jobs, NEW b \in todo[j], Delete(j, b)
      PROVE  OneJob' /\ UpToDate' /\ Counts'
  <2>0. pc[j] = "delete" /\ Active(j)  BY <1>9 DEF Delete, Active
  <2>1. /\ UNCHANGED <<names, now, stuck, pc, num_backup, num_delete>>
        /\ \A i \in Jobs : todo'[i] = IF i = j THEN todo[i] \ {b} ELSE todo[i]
        /\ requested' = requested \cup {b}
    BY <1>2, <1>3, <1>9 DEF Delete, Values
  <2>3. OneJob'  BY <1>1, <2>0, <2>1 DEF OneJob, Active
  <2>4. UpToDate'  BY <1>1, <2>1 DEF UpToDate
  <2>5. names' \ Doomed(j)' = names \ Doomed(j) /\ Rest' = Rest
    BY <2>1 DEF Doomed, Gone, Rest
  <2>6. \A i \in Jobs \ {j} : ~Deleting(i)'  BY <1>4, <2>0, <2>1 DEF Deleting
  <2>7. Deleting(j) /\ Deleting(j)'  BY <2>0, <2>1 DEF Deleting
  <2>8. Cardinality(names \ Doomed(j)) = Rest  BY <1>1, <2>7 DEF Counts
  <2> QED  BY <2>3, <2>4, <2>5, <2>6, <2>7, <2>8 DEF Counts
<1>10. ASSUME NEW j \in Jobs, DeleteAll(j) PROVE OneJob' /\ UpToDate' /\ Counts'
  <2>0. pc[j] = "delete" /\ Active(j) /\ todo[j] = {}  BY <1>10 DEF DeleteAll, Active
  <2>1. /\ UNCHANGED <<names, requested, now, stuck, todo, num_backup, num_delete>>
        /\ \A i \in Jobs : pc'[i] = IF i = j THEN "create" ELSE pc[i]
    BY <1>2, <1>10 DEF DeleteAll, Values
  <2>3. OneJob'  BY <1>1, <1>4, <2>0, <2>1 DEF OneJob, Active
  <2>4. UpToDate'  BY <1>1, <2>1 DEF UpToDate
  <2>5. names' \ Doomed(j)' = names \ Doomed(j) /\ Rest' = Rest
    BY <2>1 DEF Doomed, Gone, Rest
  <2>6. \A i \in Jobs \ {j} : ~Deleting(i)'  BY <1>4, <2>0, <2>1 DEF Deleting
  <2>7. Deleting(j) /\ Deleting(j)'  BY <2>0, <2>1 DEF Deleting
  <2>8. Cardinality(names \ Doomed(j)) = Rest  BY <1>1, <2>7 DEF Counts
  <2> QED  BY <2>3, <2>4, <2>5, <2>6, <2>7, <2>8 DEF Counts
<1>11. ASSUME NEW j \in Jobs, Create(j) PROVE OneJob' /\ UpToDate' /\ Counts'
  <2>0. pc[j] = "create" /\ Active(j)  BY <1>11 DEF Create, Active
  <2>1. /\ UNCHANGED <<requested, stuck, todo, num_backup, num_delete>>
        /\ names' = names \cup {now} /\ now' = now + 1
        /\ \A i \in Jobs : pc'[i] = IF i = j THEN "done" ELSE pc[i]
    BY <1>2, <1>3, <1>11 DEF Create, Values
  <2>2. todo[j] = {}  BY <1>1, <2>0 DEF OneJob
  <2>3. OneJob'  BY <1>1, <1>4, <2>0, <2>1 DEF OneJob, Active
  <2>4. UpToDate'  BY <1>4, <2>0, <2>1 DEF UpToDate
  <2>5. Doomed(j) = requested  BY <1>1, <2>2 DEF Doomed, Gone, OneJob
  <2>6. Cardinality(Kept) = Rest
    <3>1. Deleting(j)  BY <2>0 DEF Deleting
    <3> QED  BY <1>1, <2>5, <3>1 DEF Counts, Kept
  <2>7. now \in Nat /\ now \notin names /\ now \notin requested  BY <1>2 DEF Values
  <2>8. Kept' = Kept \cup {now} /\ now \notin Kept  BY <2>1, <2>7 DEF Kept
  <2>9. IsFiniteSet(Kept)  BY <1>2, NamesFinite DEF Kept
  <2>10. Cardinality(Kept \cup {now}) = Cardinality(Kept) + 1  BY <2>8, <2>9, FS_AddElement
  <2>11. Cardinality(Kept') = Rest + 1  BY <2>6, <2>8, <2>10
  <2>12. Rest + 1 = Final'  BY <2>1, <2>7, RotationAssumption DEF Rest, Final
  <2>13. Settled'  BY <2>11, <2>12 DEF Settled
  <2>14. \A i \in Jobs : ~Deleting(i)'  BY <1>4, <2>0, <2>1 DEF Deleting
  <2> QED  BY <2>3, <2>4, <2>13, <2>14 DEF Counts
<1>12. ASSUME NEW j \in Jobs, Killed(j) PROVE OneJob' /\ UpToDate' /\ Counts'
  BY <1>3, <1>12 DEF Killed
<1>13. ASSUME NEW b \in names, Remove(b) PROVE OneJob' /\ UpToDate' /\ Counts'
  <2>1. /\ UNCHANGED <<requested, now, pc, num_backup, num_delete, todo, stuck>>
        /\ names' = names \ {b} /\ b \in requested
        /\ \A j \in Jobs : pc[j] \notin {"label", "list"}
    BY <1>3, <1>13 DEF Remove
  <2>2. OneJob'  BY <1>1, <2>1 DEF OneJob, Active
  <2>3. UpToDate'  BY <2>1 DEF UpToDate
  <2>4. Kept' = Kept /\ Final' = Final /\ Rest' = Rest  BY <2>1 DEF Kept, Final, Rest
  <2>5. \A j \in Jobs : names' \ Doomed(j)' = names \ Doomed(j) /\ Deleting(j)' = Deleting(j)
    BY <2>1 DEF Doomed, Gone, Deleting
  <2> QED  BY <1>1, <2>1, <2>2, <2>3, <2>4, <2>5 DEF Counts, Settled
<1> QED
  BY <1>5, <1>6, <1>7, <1>8, <1>9, <1>10, <1>11, <1>12, <1>13 DEF Next

(* When nothing goes wrong, each job leaves as many backups as the label   *)
(* says, or all there ever were, and at least the one it makes; what the   *)
(* job before still has to see removed is not counted twice.               *)
THEOREM RotationSettles == Spec => []SettlesAtKeep
<1>1. Init => Steady
  <2> SUFFICES ASSUME Init PROVE OneJob /\ UpToDate /\ Counts  BY DEF Steady
  <2>1. /\ \A j \in Jobs : pc[j] = "idle" /\ todo[j] = {}
        /\ names = 0..now - 1 /\ requested = {} /\ stuck = {}
    BY DEF Init
  <2>2. now \in Nat  BY RotationAssumption DEF Init
  <2>3. Cardinality(0..now - 1) = now
    <3>1. 0 \in Int /\ now - 1 \in Int  BY <2>2
    <3>2. Cardinality(0..now - 1) = IF 0 > now - 1 THEN 0 ELSE (now - 1) - 0 + 1
      BY <3>1, FS_Interval
    <3> QED  BY <2>2, <3>2
  <2>4. Kept = 0..now - 1  BY <2>1 DEF Kept
  <2>5. Settled  BY <2>1, <2>3, <2>4 DEF Settled
  <2> QED  BY <2>1, <2>5 DEF OneJob, UpToDate, Counts, Active, Deleting
<1>2. Inv /\ Steady /\ [Next]_vars => Steady'  BY SteadyStep
<1>3. Steady => SettlesAtKeep
  BY DEF Steady, Quiet, Counts, Settled, Deleting, Active, SettlesAtKeep, Final
<1> QED  BY <1>1, <1>2, <1>3, RotationInvariant, PTL DEF Spec

=============================================================================
