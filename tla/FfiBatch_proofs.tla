--------------------------- MODULE FfiBatch_proofs ---------------------------
(***************************************************************************)
(* Proofs about FfiBatch, for every number of inputs, workers and free     *)
(* calls.  What the caller can reach is live and tagged with its position, *)
(* so no two items share an allocation; from that, nothing is freed twice. *)
(* Positions of the pool are settled with the fate of their own input.     *)
(***************************************************************************)
EXTENDS FfiBatch, TLAPS

(* Item i owns nothing but the allocations of position i, and they are live. *)
ItemsInv ==
  \A i \in DOMAIN items :
    /\ items[i].wkb \in {Null, <<"wkb", i>>}
    /\ items[i].msg \in {Null, <<"msg", i>>}
    /\ Pointers(items[i]) \subseteq heap

(* Nothing is handed out before the call returns.                          *)
ResultInv ==
  /\ pc # "returned" => result = Zeroed
  /\ result.items \in {Null, <<"array">>}
  /\ result.msg \in {Null, <<"batch_msg">>}
  /\ {result.items, result.msg} \ {Null} \subseteq heap

OwnInv == ItemsInv /\ ResultInv

(* How far the serial loop and the pool have come.                         *)
InputsInv == inputs \in Seq(Fates) /\ DOMAIN inputs = 1 .. Count

ProgressInv ==
  /\ pc \in {"call", "serial", "pool", "returned"}
  /\ mode \in {"serial", "parallel", "null"}
  /\ next \in Nat /\ next >= 1
  /\ frees \in Nat
  /\ pc = "call" => next = 1 /\ items = NoItems
  /\ pc = "serial" => /\ mode = "serial"
                      /\ next <= Count + 1
                      /\ items = [i \in 1 .. (next - 1) |-> Item(i, inputs[i])]
                      /\ \A i \in 1 .. (next - 1) : inputs[i] # "panic"
  /\ pc = "pool" => mode = "parallel"
  /\ \A w \in Workers : busy[w] \in {0} \cup DOMAIN inputs
  /\ DOMAIN busy = Workers
  /\ DOMAIN slots = DOMAIN inputs
  /\ \A i \in DOMAIN inputs : slots[i] \in {"todo", inputs[i]}

PlaceInv == InputsInv /\ ProgressInv /\ OutcomeInPlace

(* A batch is a sequence of fates.                                         *)
LEMMA InputsAreSequences ==
  ASSUME inputs \in Batches
  PROVE  InputsInv
<1>1. PICK n \in 0 .. MaxItems : inputs \in [1 .. n -> Fates]
  BY DEF Batches
<1>2. n \in Nat
  BY MaxItemsAssumption
<1>3. Len(inputs) = n /\ inputs \in Seq(Fates)
  BY <1>1, <1>2
<1> QED BY <1>1, <1>3 DEF InputsInv, Count

(* The ownership invariant is inductive on its own.                        *)
LEMMA OwnInit == Init => OwnInv /\ FreedOnce
  BY DEF Init, OwnInv, ItemsInv, ResultInv, FreedOnce, NoItems, Zeroed, Null

(* No step frees what is freed already or gives a pointer a second owner.  *)
LEMMA OwnNext ==
  ASSUME OwnInv, FreedOnce, [Next]_vars
  PROVE  OwnInv' /\ FreedOnce'
<1> USE DEF OwnInv, ItemsInv, ResultInv, FreedOnce, Pointers, Null
<1>1. CASE ReturnEarly
  BY <1>1 DEF ReturnEarly, Return, Succeeded, Failed, Zeroed
<1>2. CASE Enter
  BY <1>2 DEF Enter
<1>3. CASE SerialItem
  <2>1. \A i \in DOMAIN items' :
          \/ items'[i] = items[i] /\ i \in DOMAIN items
          \/ i = next /\ items'[i] = Item(i, inputs[i])
    BY <1>3 DEF SerialItem
  <2>2. ItemsInv'
    BY <1>3, <2>1 DEF SerialItem, Item
  <2> QED BY <1>3, <2>2 DEF SerialItem
<1>4. CASE SerialPanic
  BY <1>4 DEF SerialPanic, Return, Failed, NoItems
<1>5. CASE SerialReturn
  BY <1>5 DEF SerialReturn, Return, Succeeded
<1>6. ASSUME NEW w \in Workers, Take(w) \/ Settle(w)
      PROVE  OwnInv' /\ FreedOnce'
  BY <1>6 DEF Take, Settle
<1>7. CASE PoolPanic
  BY <1>7 DEF PoolPanic, Idle, Return, Failed
<1>8. CASE PoolReturn
  BY <1>8 DEF PoolReturn, Return, Succeeded, Item
<1>9. ASSUME NEW i \in DOMAIN items, FreeItem(i)
      PROVE  OwnInv' /\ FreedOnce'
  <2>1. FreedOnce'
    BY <1>9 DEF FreeItem, Release
  <2>2. ResultInv'
    BY <1>9 DEF FreeItem, Release
  <2>3. ItemsInv'
    BY <1>9 DEF FreeItem, Release
  <2> QED BY <2>1, <2>2, <2>3
<1>10. CASE FreeBatch
  <2>1. FreedOnce'
    BY <1>10 DEF FreeBatch, Release
  <2>2. OwnInv'
    BY <1>10 DEF FreeBatch, Release, Zeroed, NoItems
  <2> QED BY <2>1, <2>2
<1>11. CASE UNCHANGED vars
  BY <1>11 DEF vars
<1> QED
  BY <1>1, <1>2, <1>3, <1>4, <1>5, <1>6, <1>7, <1>8, <1>9, <1>10, <1>11 DEF Next

(* No allocation is freed twice, in whatever order and however often the   *)
(* caller frees items and batch (mod.rs, geo_repair_free_result and        *)
(* geo_repair_free_batch_result).                                          *)
THEOREM DoubleFreeSafe == Spec => []FreedOnce
<1>1. OwnInv /\ FreedOnce /\ [Next]_vars => (OwnInv /\ FreedOnce)'
  BY OwnNext
<1> QED BY OwnInit, <1>1, PTL DEF Spec

(***************************************************************************)
(* Outcomes land in their place.                                           *)
(***************************************************************************)
LEMMA PlaceInit == Init => PlaceInv
<1> SUFFICES ASSUME Init PROVE PlaceInv
  OBVIOUS
<1>1. InputsInv
  BY InputsAreSequences DEF Init
<1>2. ProgressInv
  BY DEF Init, ProgressInv
<1>3. OutcomeInPlace
  BY DEF Init, OutcomeInPlace
<1> QED BY <1>1, <1>2, <1>3 DEF PlaceInv

(* No step settles a slot with the fate of another input.                  *)
LEMMA PlaceNext ==
  ASSUME PlaceInv, [Next]_vars
  PROVE  PlaceInv'
<1>0. Count \in Nat /\ InputsInv /\ ProgressInv /\ OutcomeInPlace
  BY DEF PlaceInv, InputsInv, Count
<1>i. inputs' = inputs => InputsInv'
  BY <1>0 DEF InputsInv, Count
<1> USE DEF PlaceInv
<1>1. CASE ReturnEarly
  <2>1. inputs' = inputs
    BY <1>1 DEF ReturnEarly
  <2>2. ProgressInv'
    BY <1>0, <1>1 DEF ProgressInv, ReturnEarly, Return, Count
  <2>3. OutcomeInPlace'
    <3>1. CASE Count = 0 /\ Return(Succeeded(0), {})
      <4>1. DOMAIN inputs = {} /\ items = NoItems
        BY <1>0, <1>1, <3>1 DEF InputsInv, ReturnEarly, ProgressInv
      <4>2. items = [i \in DOMAIN inputs |-> Item(i, inputs[i])]
        BY <4>1 DEF NoItems
      <4> QED BY <1>1, <3>1, <4>1, <4>2 DEF OutcomeInPlace, ReturnEarly, Return, Succeeded, Count
    <3>2. CASE mode = "null"
      BY <1>1, <3>2 DEF OutcomeInPlace, ReturnEarly
    <3> QED BY <1>1, <3>1, <3>2 DEF ReturnEarly
  <2> QED BY <1>i, <2>1, <2>2, <2>3
<1>2. CASE Enter
  <2>1. items = [i \in 1 .. (next - 1) |-> Item(i, inputs[i])]
    BY <1>0, <1>2 DEF Enter, ProgressInv, NoItems
  <2>2. ProgressInv'
    BY <1>0, <1>2, <2>1 DEF ProgressInv, Enter, Count, Item
  <2>3. OutcomeInPlace'
    BY <1>2 DEF OutcomeInPlace, Enter
  <2> QED BY <1>i, <1>2, <2>2, <2>3 DEF Enter
<1>3. CASE SerialItem
  <2>1. next \in DOMAIN inputs
    BY <1>0, <1>3 DEF SerialItem, ProgressInv, InputsInv
  <2>2. DOMAIN items = 1 .. (next - 1) /\ next \in Nat /\ next >= 1
    BY <1>0, <1>3 DEF SerialItem, ProgressInv
  <2>3. DOMAIN items \cup {next} = 1 .. (next' - 1)
    BY <2>2, <1>3 DEF SerialItem
  <2>4. items' = [i \in 1 .. (next' - 1) |-> Item(i, inputs[i])]
    BY <1>0, <1>3, <2>2, <2>3 DEF SerialItem, ProgressInv
  <2>5. ProgressInv'
    <3>1. next' \in Nat /\ next' >= 1 /\ next' <= Count' + 1 /\ mode' = "serial"
      BY <1>0, <1>3, <2>2 DEF SerialItem, ProgressInv, Count
    <3>2. \A i \in 1 .. (next' - 1) : inputs'[i] # "panic"
      <4>1. \A i \in 1 .. (next' - 1) : i = next \/ i \in 1 .. (next - 1)
        BY <1>3, <2>2 DEF SerialItem
      <4> QED BY <1>0, <1>3, <4>1 DEF SerialItem, ProgressInv
    <3>3. items' = [i \in 1 .. (next' - 1) |-> Item(i, inputs[i])'] /\ inputs' = inputs
      BY <1>3, <2>4 DEF SerialItem, Item
    <3>4. /\ pc' = "serial" /\ frees' \in Nat
          /\ \A w \in Workers : busy'[w] \in {0} \cup DOMAIN inputs'
          /\ DOMAIN busy' = Workers
          /\ DOMAIN slots' = DOMAIN inputs'
          /\ \A i \in DOMAIN inputs' : slots'[i] \in {"todo", inputs'[i]}
      BY <1>0, <1>3 DEF SerialItem, ProgressInv
    <3> QED BY <3>1, <3>2, <3>3, <3>4 DEF ProgressInv
  <2>6. OutcomeInPlace'
    BY <1>3 DEF OutcomeInPlace, SerialItem
  <2> QED BY <1>i, <1>3, <2>5, <2>6 DEF SerialItem
<1>4. CASE SerialPanic
  <2>1. next \in DOMAIN inputs
    BY <1>0, <1>4 DEF SerialPanic, ProgressInv, InputsInv
  <2>2. OutcomeInPlace'
    BY <1>4, <2>1 DEF OutcomeInPlace, SerialPanic, Return, Failed
  <2>3. ProgressInv'
    BY <1>0, <1>4 DEF SerialPanic, ProgressInv, Return, Count
  <2> QED BY <1>i, <1>4, <2>2, <2>3 DEF SerialPanic
<1>5. CASE SerialReturn
  <2>1. 1 .. (next - 1) = DOMAIN inputs
    BY <1>0, <1>5 DEF SerialReturn, ProgressInv, InputsInv
  <2>2. OutcomeInPlace'
    BY <1>0, <1>5, <2>1 DEF OutcomeInPlace, SerialReturn, Return, Succeeded, ProgressInv, Count
  <2>3. ProgressInv'
    BY <1>0, <1>5 DEF SerialReturn, ProgressInv, Return, Count
  <2> QED BY <1>i, <1>5, <2>2, <2>3 DEF SerialReturn
<1>6. ASSUME NEW w \in Workers, Take(w)
      PROVE  PlaceInv'
  <2>1. ProgressInv'
    BY <1>0, <1>6 DEF Take, ProgressInv, Count
  <2>2. OutcomeInPlace'
    BY <1>6 DEF OutcomeInPlace, Take
  <2> QED BY <1>i, <1>6, <2>1, <2>2 DEF Take
<1>7. ASSUME NEW w \in Workers, Settle(w)
      PROVE  PlaceInv'
  <2>1. ProgressInv'
    BY <1>0, <1>7 DEF Settle, ProgressInv, Count
  <2>2. OutcomeInPlace'
    BY <1>7 DEF OutcomeInPlace, Settle
  <2> QED BY <1>i, <1>7, <2>1, <2>2 DEF Settle
<1>8. CASE PoolPanic
  <2>1. ProgressInv'
    BY <1>0, <1>8 DEF PoolPanic, Idle, ProgressInv, Return, Count
  <2>2. OutcomeInPlace'
    BY <1>0, <1>8 DEF PoolPanic, Idle, Panicked, OutcomeInPlace, Return, Failed, ProgressInv
  <2> QED BY <1>i, <1>8, <2>1, <2>2 DEF PoolPanic
<1>9. CASE PoolReturn
  <2>1. \A i \in DOMAIN inputs : slots[i] = inputs[i] /\ inputs[i] # "panic"
    BY <1>0, <1>9 DEF PoolReturn, ProgressInv
  <2>2. items' = [i \in DOMAIN inputs |-> Item(i, inputs[i])]
    BY <1>9, <2>1 DEF PoolReturn
  <2>3. OutcomeInPlace'
    BY <1>9, <2>1, <2>2 DEF OutcomeInPlace, PoolReturn, Return, Succeeded, Count
  <2>4. ProgressInv'
    BY <1>0, <1>9 DEF PoolReturn, ProgressInv, Return, Count
  <2> QED BY <1>i, <1>9, <2>3, <2>4 DEF PoolReturn
<1>10. ASSUME NEW i \in DOMAIN items, FreeItem(i)
       PROVE  PlaceInv'
  <2>1. ProgressInv'
    BY <1>0, <1>10 DEF FreeItem, Release, ProgressInv, Count
  <2>2. frees' # 0
    BY <1>0, <1>10 DEF FreeItem, Release, ProgressInv
  <2> QED BY <1>i, <1>10, <2>1, <2>2 DEF FreeItem, OutcomeInPlace
<1>11. CASE FreeBatch
  <2>1. ProgressInv'
    BY <1>0, <1>11 DEF FreeBatch, Release, ProgressInv, Count
  <2>2. frees' # 0
    BY <1>0, <1>11 DEF FreeBatch, Release, ProgressInv
  <2> QED BY <1>i, <1>11, <2>1, <2>2 DEF FreeBatch, OutcomeInPlace
<1>12. CASE UNCHANGED vars
  BY <1>0, <1>12 DEF vars, InputsInv, ProgressInv, OutcomeInPlace, Count
<1> QED
  BY <1>1, <1>2, <1>3, <1>4, <1>5, <1>6, <1>7, <1>8, <1>9, <1>10, <1>11, <1>12 DEF Next

(* The serial loop and the pool hand out the same items, one per input and *)
(* in input order, for every schedule of the workers (batch.rs).           *)
THEOREM InputOrder == Spec => []OutcomeInPlace
<1>1. PlaceInv /\ [Next]_vars => PlaceInv'
  BY PlaceNext
<1>2. PlaceInv => OutcomeInPlace
  BY DEF PlaceInv
<1> QED BY PlaceInit, <1>1, <1>2, PTL DEF Spec

(***************************************************************************)
(* Types.                                                                  *)
(***************************************************************************)
(* An item is what the C struct can hold, and points to what its position  *)
(* allocated.                                                              *)
LEMMA ItemTyped ==
  ASSUME NEW i \in 1 .. MaxItems, NEW fate \in Fates
  PROVE  Item(i, fate) \in ItemType /\ Pointers(Item(i, fate)) \subseteq Pointer
<1>1. <<"wkb", i>> \in Pointer /\ <<"msg", i>> \in Pointer
  BY DEF Pointer
<1> QED BY <1>1 DEF Item, ItemType, Pointers

(* What a call returns is a result, and what it allocates are pointers.    *)
LEMMA ReturnTyped ==
  ASSUME TypeOK, NEW r \in ResultType, NEW allocated \in SUBSET Pointer, Return(r, allocated)
  PROVE  pc' = "returned" /\ result' \in ResultType /\ heap' \subseteq Pointer
  BY DEF Return, TypeOK

(* What a call returns is a result.                                        *)
LEMMA ResultsTyped ==
  /\ \A n \in 0 .. MaxItems : Succeeded(n) \in ResultType
  /\ \A code \in {"InvalidInput", "Panic"} : Failed(code) \in ResultType
  /\ Zeroed \in ResultType
  BY MaxItemsAssumption DEF Succeeded, Failed, Zeroed, ResultType, Null

(* A batch has no more than MaxItems inputs.                               *)
LEMMA InputsTyped ==
  ASSUME inputs \in Batches
  PROVE  /\ Count \in 0 .. MaxItems
         /\ DOMAIN inputs = 1 .. Count
         /\ DOMAIN inputs \subseteq 1 .. MaxItems
         /\ \A i \in DOMAIN inputs : inputs[i] \in Fates
<1>1. PICK n \in 0 .. MaxItems : inputs \in [1 .. n -> Fates]
  BY DEF Batches
<1>2. Len(inputs) = n
  BY <1>1, MaxItemsAssumption
<1> QED BY <1>1, <1>2, MaxItemsAssumption DEF Count

(* The first state has its types.                                          *)
LEMMA TypeInit == Init => TypeOK
<1> SUFFICES ASSUME Init PROVE TypeOK
  OBVIOUS
<1>1. Count \in 0 .. MaxItems
  BY InputsTyped DEF Init
<1>2. \E D \in SUBSET DOMAIN inputs : items \in [D -> ItemType]
  <2>1. items \in [{} -> ItemType]
    BY DEF Init, NoItems
  <2> QED BY <2>1
<1>3. next \in 1 .. (Count + 1) /\ frees \in 0 .. MaxFrees
  BY <1>1, MaxFreesAssumption DEF Init
<1>4. slots \in [DOMAIN inputs -> Fates \cup {"todo"}] /\ busy \in [Workers -> {0} \cup DOMAIN inputs]
  BY DEF Init
<1> QED BY <1>1, <1>2, <1>3, <1>4, ResultsTyped DEF Init, TypeOK

(* Every step keeps the types.                                             *)
LEMMA TypeNext ==
  ASSUME TypeOK, [Next]_vars
  PROVE  TypeOK'
<1>0. /\ inputs \in Batches /\ Count \in 0 .. MaxItems
      /\ DOMAIN inputs = 1 .. Count /\ DOMAIN inputs \subseteq 1 .. MaxItems
      /\ \A i \in DOMAIN inputs : inputs[i] \in Fates
  BY InputsTyped DEF TypeOK
<1>e. PICK D \in SUBSET DOMAIN inputs : items \in [D -> ItemType]
  BY DEF TypeOK
<1>n. NoItems \in [{} -> ItemType]
  BY DEF NoItems
<1>1. CASE ReturnEarly
  <2>1. PICK r \in ResultType, allocated \in SUBSET Pointer : Return(r, allocated)
    BY <1>0, <1>1, ResultsTyped DEF ReturnEarly, Pointer
  <2> QED BY <1>1, <2>1, ReturnTyped DEF ReturnEarly, TypeOK, Count
<1>2. CASE Enter
  BY <1>2 DEF Enter, TypeOK, Count
<1>3. CASE SerialItem
  <2>1. next \in DOMAIN inputs /\ next \in 1 .. MaxItems /\ inputs[next] \in Fates
    BY <1>0, <1>3 DEF SerialItem, TypeOK
  <2>2. Item(next, inputs[next]) \in ItemType /\ Pointers(Item(next, inputs[next])) \subseteq Pointer
    BY <2>1, ItemTyped
  <2>3. items' \in [D \cup {next} -> ItemType] /\ D \cup {next} \in SUBSET DOMAIN inputs
    BY <1>3, <1>e, <2>1, <2>2 DEF SerialItem
  <2>4. next' \in 1 .. (Count + 1)
    BY <1>0, <1>3 DEF SerialItem, TypeOK
  <2> QED BY <1>3, <2>2, <2>3, <2>4 DEF SerialItem, TypeOK, Count
<1>4. CASE SerialPanic
  <2>1. Failed("Panic") \in ResultType /\ {<<"batch_msg">>} \in SUBSET Pointer
    BY ResultsTyped DEF Pointer
  <2> QED BY <1>4, <1>n, <2>1, ReturnTyped DEF SerialPanic, TypeOK, Count
<1>5. CASE SerialReturn
  <2>1. Succeeded(Count) \in ResultType /\ {<<"array">>} \in SUBSET Pointer
    BY <1>0, ResultsTyped DEF Pointer
  <2> QED BY <1>5, <2>1, ReturnTyped DEF SerialReturn, TypeOK, Count
<1>6. ASSUME NEW w \in Workers, Take(w) \/ Settle(w)
      PROVE  TypeOK'
  <2>1. CASE Take(w)
    <3>1. busy' \in [Workers -> {0} \cup DOMAIN inputs]
      BY <2>1 DEF Take, TypeOK
    <3> QED BY <2>1, <3>1 DEF Take, TypeOK, Count
  <2>2. CASE Settle(w)
    <3>1. busy' \in [Workers -> {0} \cup DOMAIN inputs]
      BY <2>2 DEF Settle, TypeOK
    <3>2. slots' \in [DOMAIN inputs -> Fates \cup {"todo"}]
      <4>1. busy[w] \in DOMAIN inputs /\ inputs[busy[w]] \in Fates
        BY <1>0, <2>2 DEF Settle, TypeOK
      <4> QED BY <2>2, <4>1 DEF Settle, TypeOK
    <3> QED BY <2>2, <3>1, <3>2 DEF Settle, TypeOK, Count
  <2> QED BY <1>6, <2>1, <2>2
<1>7. CASE PoolPanic
  <2>1. Failed("Panic") \in ResultType /\ {<<"batch_msg">>} \in SUBSET Pointer
    BY ResultsTyped DEF Pointer
  <2> QED BY <1>7, <2>1, ReturnTyped DEF PoolPanic, TypeOK, Count
<1>8. CASE PoolReturn
  <2>1. \A i \in DOMAIN inputs : slots[i] \in Fates
    BY <1>8 DEF PoolReturn, TypeOK
  <2>2. \A i \in DOMAIN inputs : items'[i] \in ItemType /\ Pointers(items'[i]) \subseteq Pointer
    BY <1>0, <1>8, <2>1, ItemTyped DEF PoolReturn
  <2>3. items' \in [DOMAIN inputs -> ItemType]
    BY <1>8, <2>2 DEF PoolReturn
  <2>4. {<<"array">>} \cup UNION {Pointers(items'[i]) : i \in DOMAIN inputs} \in SUBSET Pointer
    BY <2>2 DEF Pointer
  <2>5. Succeeded(Count) \in ResultType
    BY <1>0, ResultsTyped
  <2>6. pc' = "returned" /\ result' \in ResultType /\ heap' \subseteq Pointer
    BY <1>8, <2>4, <2>5, ReturnTyped DEF PoolReturn
  <2> QED BY <1>8, <2>3, <2>6 DEF PoolReturn, TypeOK, Count
<1>9. ASSUME NEW i \in DOMAIN items, FreeItem(i)
      PROVE  TypeOK'
  <2>1. [code |-> "None", wkb |-> Null, msg |-> Null] \in ItemType
    BY DEF ItemType
  <2>2. items' \in [D -> ItemType]
    BY <1>9, <1>e, <2>1 DEF FreeItem
  <2> QED BY <1>9, <2>2, MaxFreesAssumption DEF FreeItem, Release, TypeOK, Count
<1>10. CASE FreeBatch
  <2>1. \E E \in SUBSET DOMAIN inputs' : items' \in [E -> ItemType]
    BY <1>10, <1>n DEF FreeBatch
  <2>2. heap' \subseteq Pointer /\ misfreed' \in BOOLEAN /\ frees' \in 0 .. MaxFrees
    BY <1>10, MaxFreesAssumption DEF FreeBatch, Release, TypeOK
  <2> QED BY <1>10, <2>1, <2>2, ResultsTyped DEF FreeBatch, TypeOK, Count
<1>11. CASE UNCHANGED vars
  BY <1>11 DEF vars, TypeOK, Count
<1> QED
  BY <1>1, <1>2, <1>3, <1>4, <1>5, <1>6, <1>7, <1>8, <1>9, <1>10, <1>11 DEF Next

(* Every variable keeps its type: items lie at positions of inputs, what   *)
(* is allocated belongs to a position of the batch.                        *)
THEOREM BatchTyped == Spec => []TypeOK
<1>1. TypeOK /\ [Next]_vars => TypeOK'
  BY TypeNext
<1> QED BY TypeInit, <1>1, PTL DEF Spec

(***************************************************************************)
(* Nothing leaks, but for what a panic in the serial loop leaves behind.   *)
(***************************************************************************)
(* What the caller can still reach.                                        *)
Built == UNION {Pointers(items[i]) : i \in DOMAIN items}

Owned == ({result.items, result.msg} \ {Null}) \cup Built

(* The heap, exactly: while items are built it is what they point to, once *)
(* the call has returned what the caller can reach and the orphans.  Items *)
(* are reached through their array, and only a batch without a panic has   *)
(* one.                                                                    *)
HeapInv ==
  /\ pc \in {"call", "pool"} => items = NoItems /\ heap = {}
  /\ pc \in {"serial", "pool"} => Count > 0
  /\ pc = "serial" => heap = Built
  /\ pc = "returned" => heap = Owned \cup Orphans
  /\ pc = "returned" /\ result.items = Null => items = NoItems
  /\ result.items # Null => \A i \in DOMAIN inputs : inputs[i] # "panic"

LeakInv == TypeOK /\ OwnInv /\ FreedOnce /\ PlaceInv /\ HeapInv

(* What is built are the pointers of the items.                            *)
LEMMA BuiltIs ==
  /\ \A p : p \in Built <=> \E i \in DOMAIN items : p \in Pointers(items[i])
  /\ \A p : p \in Built' <=> \E i \in DOMAIN items' : p \in Pointers(items'[i])
  BY DEF Built

(* Nothing is built before there are items, and items alone decide.        *)
LEMMA NoItemsBuilt ==
  /\ items = NoItems => Built = {}
  /\ items' = NoItems => Built' = {}
  /\ items' = items => Built' = Built
  BY DEF Built, NoItems

(* Only a panic in the serial loop orphans anything.                       *)
LEMMA NoPanicNoOrphans ==
  (mode # "serial" \/ \A i \in DOMAIN inputs : inputs[i] # "panic") => Orphans = {}
  BY DEF Orphans, FirstPanic

(* Orphans are allocations of items: no array, no message of the batch.    *)
LEMMA OrphansOfItems ==
  /\ \A p \in Orphans : p # <<"batch_msg">> /\ p # <<"array">>
  /\ inputs' = inputs /\ mode' = mode => Orphans' = Orphans
<1>1. ASSUME NEW p \in Orphans PROVE p # <<"batch_msg">> /\ p # <<"array">>
  <2>1. PICK j \in DOMAIN inputs : p \in Pointers(Item(j, inputs[j]))
    BY DEF Orphans
  <2>2. p = <<"wkb", j>> \/ p = <<"msg", j>>
    BY <2>1 DEF Pointers, Item
  <2> QED BY <2>2
<1>2. inputs' = inputs /\ mode' = mode => Orphans' = Orphans
  BY DEF Orphans, FirstPanic
<1> QED BY <1>1, <1>2

(* When the loop meets its first panic the items built are the orphans.    *)
LEMMA BuiltAreOrphans ==
  ASSUME TypeOK, ProgressInv, InputsInv, pc = "serial", next <= Count, inputs[next] = "panic"
  PROVE  Orphans = Built
<1>1. /\ next \in DOMAIN inputs
      /\ DOMAIN items = 1 .. (next - 1)
      /\ \A j \in DOMAIN items : items[j] = Item(j, inputs[j]) /\ inputs[j] # "panic"
  BY DEF ProgressInv, InputsInv
<1>2. DOMAIN items = {j \in DOMAIN inputs : j < next}
  BY <1>1 DEF InputsInv, ProgressInv, TypeOK
<1>3. FirstPanic(next)
  BY <1>1, <1>2 DEF FirstPanic
<1>4. \A i \in DOMAIN inputs : FirstPanic(i) => i = next
  <2>1. SUFFICES ASSUME NEW i \in DOMAIN inputs, FirstPanic(i) PROVE i = next
    OBVIOUS
  <2>2. ~(i < next) /\ ~(next < i)
    BY <1>1, <1>2, <2>1 DEF FirstPanic
  <2> QED BY <1>1, <2>2 DEF InputsInv
<1>5. \A j \in DOMAIN items : Pointers(Item(j, inputs[j])) \subseteq Pointer
  <2>1. DOMAIN inputs \subseteq 1 .. MaxItems /\ \A j \in DOMAIN inputs : inputs[j] \in Fates
    BY InputsTyped DEF TypeOK
  <2> QED BY <1>2, <2>1, ItemTyped
<1>6. mode = "serial"
  BY DEF ProgressInv
<1>7. Orphans = {p \in Pointer : \E j \in DOMAIN items : p \in Pointers(Item(j, inputs[j]))}
  BY <1>1, <1>2, <1>3, <1>4, <1>6 DEF Orphans
<1>8. \A p : p \in Orphans <=> p \in Built
  BY <1>1, <1>5, <1>7, BuiltIs
<1> QED BY <1>8, Zenon

(* The heap is empty at first.                                             *)
LEMMA HeapInit == Init => HeapInv
  BY DEF Init, HeapInv, Zeroed

(* Every step accounts for all that the heap holds.                        *)
LEMMA HeapNext ==
  ASSUME LeakInv, [Next]_vars
  PROVE  HeapInv'
<1>0. OwnInv /\ ItemsInv /\ ResultInv /\ ProgressInv /\ InputsInv /\ TypeOK /\ HeapInv
  BY DEF LeakInv, OwnInv, PlaceInv
<1>1. CASE ReturnEarly
  <2>1. items = NoItems /\ heap = {} /\ items' = NoItems /\ pc' = "returned"
        /\ inputs' = inputs /\ mode' = mode
    BY <1>0, <1>1 DEF ReturnEarly, Return, HeapInv
  <2>2. Orphans' = {}
    <3>1. DOMAIN inputs = {} \/ mode = "null"
      BY <1>0, <1>1 DEF ReturnEarly, InputsInv
    <3> QED BY <2>1, <3>1, NoPanicNoOrphans, OrphansOfItems
  <2>3. CASE Count = 0 /\ Return(Succeeded(0), {})
    BY <2>1, <2>2, <2>3, NoItemsBuilt DEF Return, Succeeded, HeapInv, Owned
  <2>4. CASE Return(Failed("InvalidInput"), {<<"batch_msg">>})
    BY <2>1, <2>2, <2>4, NoItemsBuilt DEF Return, Failed, HeapInv, Owned, Null
  <2> QED BY <1>1, <2>3, <2>4 DEF ReturnEarly
<1>2. CASE Enter
  BY <1>0, <1>2, NoItemsBuilt DEF Enter, HeapInv, Count
<1>3. CASE SerialItem
  <2>1. heap = Built
    BY <1>0, <1>3 DEF SerialItem, HeapInv
  <2>2. next \notin DOMAIN items
    BY <1>0, <1>3 DEF SerialItem, ProgressInv
  <2>3. /\ DOMAIN items' = DOMAIN items \cup {next}
        /\ items'[next] = Item(next, inputs[next])
        /\ \A i \in DOMAIN items : items'[i] = items[i]
    BY <1>3, <2>2 DEF SerialItem
  <2>4. Built' = Built \cup Pointers(Item(next, inputs[next]))
    <3>1. \A p : (\E i \in DOMAIN items' : p \in Pointers(items'[i]))
                  <=> \/ \E i \in DOMAIN items : p \in Pointers(items[i])
                      \/ p \in Pointers(Item(next, inputs[next]))
      BY <2>3, Zenon
    <3>2. \A p : p \in Built' <=> p \in Built \cup Pointers(Item(next, inputs[next]))
      BY <3>1, BuiltIs
    <3> QED BY <3>2, Zenon
  <2>5. heap' = Built'
    BY <1>3, <2>1, <2>4 DEF SerialItem
  <2>6. pc = "serial" /\ pc' = "serial" /\ result' = result /\ inputs' = inputs
    BY <1>3 DEF SerialItem
  <2> QED BY <1>0, <2>5, <2>6 DEF HeapInv, Count
<1>4. CASE SerialPanic
  <2>1. Orphans' = Built
    BY <1>0, <1>4, BuiltAreOrphans, OrphansOfItems DEF SerialPanic
  <2>2. heap' = Orphans' \cup {<<"batch_msg">>}
    BY <1>0, <1>4, <2>1 DEF SerialPanic, Return, HeapInv
  <2>3. Owned' = {<<"batch_msg">>}
    BY <1>4, NoItemsBuilt DEF SerialPanic, Return, Failed, Owned, Null
  <2> QED BY <1>4, <2>2, <2>3 DEF SerialPanic, Return, Failed, HeapInv, Null
<1>5. CASE SerialReturn
  <2>1. \A i \in DOMAIN inputs : inputs[i] # "panic"
    <3>1. Count \in Nat /\ next = Count + 1
      BY <1>0, <1>5, InputsTyped DEF SerialReturn, ProgressInv, TypeOK
    <3> QED BY <1>0, <1>5, <3>1 DEF SerialReturn, ProgressInv, InputsInv
  <2>2. Orphans' = {}
    BY <1>5, <2>1, NoPanicNoOrphans, OrphansOfItems DEF SerialReturn
  <2>3. Count > 0 => result'.items = <<"array">> /\ result'.msg = Null
    BY <1>5 DEF SerialReturn, Return, Succeeded
  <2>4. Count > 0
    BY <1>0, <1>5 DEF SerialReturn, HeapInv
  <2>5. Owned' = {<<"array">>} \cup Built
    <3>1. {result'.items, result'.msg} \ {Null} = {<<"array">>} /\ items' = items
      BY <1>5, <2>3, <2>4 DEF SerialReturn, Null
    <3> QED BY <3>1, NoItemsBuilt DEF Owned
  <2>6. heap' = Owned'
    BY <1>0, <1>5, <2>5 DEF SerialReturn, Return, HeapInv
  <2> QED BY <1>5, <2>1, <2>2, <2>3, <2>4, <2>6 DEF SerialReturn, Return, HeapInv, Null
<1>6. ASSUME NEW w \in Workers, Take(w) \/ Settle(w)
      PROVE  HeapInv'
  BY <1>0, <1>6 DEF Take, Settle, HeapInv, Count
<1>7. CASE PoolPanic
  <2>1. Orphans' = {} /\ items = NoItems /\ heap = {}
    BY <1>0, <1>7, NoPanicNoOrphans, OrphansOfItems DEF PoolPanic, Idle, ProgressInv, HeapInv
  <2>2. Owned' = {<<"batch_msg">>}
    BY <1>7, <2>1, NoItemsBuilt DEF PoolPanic, Return, Failed, Owned, Null
  <2> QED BY <1>7, <2>1, <2>2 DEF PoolPanic, Return, Failed, HeapInv, Null
<1>8. CASE PoolReturn
  <2>1. \A i \in DOMAIN inputs : inputs[i] # "panic"
    BY <1>0, <1>8 DEF PoolReturn, ProgressInv
  <2>2. Orphans' = {} /\ heap = {}
    BY <1>0, <1>8, <2>1, NoPanicNoOrphans, OrphansOfItems DEF PoolReturn, HeapInv
  <2>3. Count > 0
    BY <1>0, <1>8 DEF PoolReturn, HeapInv
  <2>4. Owned' = {<<"array">>} \cup UNION {Pointers(items'[i]) : i \in DOMAIN inputs}
    BY <1>8, <2>3, BuiltIs DEF PoolReturn, Return, Succeeded, Owned, Null
  <2> QED BY <1>8, <2>1, <2>2, <2>3, <2>4 DEF PoolReturn, Return, Succeeded, HeapInv, Null
<1>9. ASSUME NEW i \in DOMAIN items, FreeItem(i)
      PROVE  HeapInv'
  <2>1. Orphans = {} /\ Orphans' = {}
    BY <1>0, <1>9, NoPanicNoOrphans, OrphansOfItems DEF FreeItem, HeapInv
  <2>2. /\ items'[i] = [code |-> "None", wkb |-> Null, msg |-> Null]
        /\ DOMAIN items' = DOMAIN items
        /\ \A j \in DOMAIN items : j # i => items'[j] = items[j]
    BY <1>9 DEF FreeItem
  <2>3. Pointers(items'[i]) = {}
    BY <2>2 DEF Pointers
  <2>4. \A j \in DOMAIN items : j # i => Pointers(items[j]) \cap Pointers(items[i]) = {}
    BY <1>0 DEF ItemsInv, Pointers, Null
  <2>5. ({result.items, result.msg} \ {Null}) \cap Pointers(items[i]) = {}
    BY <1>0 DEF ItemsInv, ResultInv, Pointers, Null
  <2>6. Built' = Built \ Pointers(items[i])
    <3>1. \A p : (\E j \in DOMAIN items' : p \in Pointers(items'[j]))
                  <=> (\E j \in DOMAIN items : p \in Pointers(items[j])) /\ p \notin Pointers(items[i])
      <4>1. ASSUME NEW p, NEW j \in DOMAIN items', p \in Pointers(items'[j])
            PROVE  j \in DOMAIN items /\ p \in Pointers(items[j]) /\ p \notin Pointers(items[i])
        <5>1. j # i
          BY <4>1, <2>3
        <5>2. j \in DOMAIN items /\ Pointers(items'[j]) = Pointers(items[j])
          BY <2>2, <5>1
        <5> QED BY <2>4, <4>1, <5>1, <5>2
      <4>2. ASSUME NEW p, NEW j \in DOMAIN items, p \in Pointers(items[j]), p \notin Pointers(items[i])
            PROVE  j \in DOMAIN items' /\ p \in Pointers(items'[j])
        <5>1. j # i
          BY <4>2
        <5> QED BY <2>2, <4>2, <5>1
      <4> QED BY <4>1, <4>2
    <3>2. \A p : p \in Built' <=> p \in Built \ Pointers(items[i])
      BY <3>1, BuiltIs
    <3> QED BY <3>2, Zenon
  <2>7. Owned' = Owned \ Pointers(items[i])
    BY <1>9, <2>5, <2>6 DEF FreeItem, Owned
  <2>8. heap' = Owned'
    BY <1>0, <1>9, <2>1, <2>7 DEF FreeItem, Release, HeapInv
  <2> QED BY <1>0, <1>9, <2>1, <2>8 DEF FreeItem, HeapInv
<1>10. CASE FreeBatch
  <2>1. Orphans' = Orphans /\ items' = NoItems /\ result' = Zeroed
    BY <1>10, OrphansOfItems DEF FreeBatch
  <2>2. heap = Owned \cup Orphans
    BY <1>0, <1>10 DEF FreeBatch, HeapInv
  <2>3. heap' = heap \ Owned
    <3>1. heap' = heap \ (({result.items, result.msg} \ {Null}) \cup
                            IF result.items = Null THEN {} ELSE Built)
      BY <1>10 DEF FreeBatch, Release, Built
    <3>2. result.items = Null => Built = {}
      BY <1>0, <1>10, NoItemsBuilt DEF FreeBatch, HeapInv
    <3> QED BY <3>1, <3>2 DEF Owned
  <2>4. Owned \cap Orphans = {}
    <3>1. CASE result.items = Null
      BY <1>0, <1>10, <3>1, OrphansOfItems, NoItemsBuilt DEF FreeBatch, HeapInv, Owned, ResultInv
    <3>2. CASE result.items # Null
      BY <1>0, <3>2, NoPanicNoOrphans DEF HeapInv
    <3> QED BY <3>1, <3>2
  <2>5. Owned' = {}
    BY <2>1, NoItemsBuilt DEF Owned, Zeroed
  <2> QED BY <1>10, <2>1, <2>2, <2>3, <2>4, <2>5 DEF FreeBatch, HeapInv, Zeroed
<1>11. CASE UNCHANGED vars
  BY <1>0, <1>11, OrphansOfItems, NoItemsBuilt DEF vars, HeapInv, Owned, Count
<1> QED
  BY <1>1, <1>2, <1>3, <1>4, <1>5, <1>6, <1>7, <1>8, <1>9, <1>10, <1>11 DEF Next

(* Once the batch is freed nothing is left on the heap but the items of a  *)
(* serial batch that a panic cut short (batch.rs, repair_batch_sequential: *)
(* GeoRepairResult has no Drop), whatever was freed before it and how      *)
(* often.                                                                  *)
THEOREM FreedBatchLeaksNothing == Spec => []NothingElseLeft
<1>1. Init => LeakInv
  BY TypeInit, OwnInit, PlaceInit, HeapInit DEF LeakInv
<1>2. LeakInv /\ [Next]_vars => LeakInv'
  BY TypeNext, OwnNext, PlaceNext, HeapNext DEF LeakInv
<1>3. LeakInv => NothingElseLeft
  <2>1. LeakInv /\ pc = "returned" /\ result = Zeroed => Owned = {}
    BY NoItemsBuilt DEF LeakInv, HeapInv, Owned, Zeroed
  <2> QED BY <2>1 DEF LeakInv, HeapInv, NothingElseLeft
<1> QED BY <1>1, <1>2, <1>3, PTL DEF Spec
=============================================================================
