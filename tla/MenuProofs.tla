----------------------------- MODULE MenuProofs -----------------------------
(***************************************************************************)
(* Proofs about Menu, for any number of dishes, groups, options, orders    *)
(* and requests. IInv has two halves. The dishes of order lines are live,  *)
(* and live dishes have a live category: what the foreign keys restrict.   *)
(* And every group that some test compared has its bounds in order; for    *)
(* that, what an update in flight was compared with must be remembered.    *)
(* MenuInv adds the types of rows and requests, and that a line request    *)
(* which nothing overtook fits the menu as it is.                          *)
(***************************************************************************)
EXTENDS Menu, Folding, SequenceTheorems

\* What a request remembers, whatever the values.
IsCall(call) ==
  call = [at |-> call.at, dish |-> call.dish, chosen |-> call.chosen, delta |-> call.delta,
          group |-> call.group, min |-> call.min, max |-> call.max, read |-> call.read,
          overtaken |-> call.overtaken]

CallsShape ==
  /\ menuCalls = [c \in MenuCalls |-> menuCalls[c]]
  /\ \A c \in MenuCalls : IsCall(menuCalls[c])

\* The rows that matter below.
MenuShapes ==
  /\ categories \in [Categories -> {"absent", "live", "gone"}]
  /\ dishes \in [Dishes -> [state : {"absent", "live", "gone"}, available : BOOLEAN,
                            category : Categories \cup {Null}]]
  /\ groups \in [Groups -> [state : {"absent", "live", "gone"}, dish : Dishes \cup {Null},
                            required : BOOLEAN, min : Nat, max : Nat]]
  /\ menuLines \in Seq(ToSet(menuLines))
  /\ CallsShape

DishesOnMenu ==
  /\ \A n \in DOMAIN menuLines : menuLines[n].dish \in LiveDishes
  /\ \A d \in LiveDishes : dishes[d].category \in LiveCategories

\* An update of a group was compared: both bounds are sent and in order, or they
\* were in order with the row that was read.
Compared(call) ==
  /\ call.min \in Nat \cup {Unsent} /\ call.max \in Nat \cup {Unsent}
  /\ \/ call.min # Unsent /\ call.max # Unsent /\ call.min <= call.max
     \/ \E low \in Nat, high \in Nat :
          call.read = <<low, high>> /\ Sent(call.min, low) <= Sent(call.max, high)

CallsCompared == \A c \in MenuCalls : menuCalls[c].at = "updateGroup" => Compared(menuCalls[c])

\* The bounds of a group are in order unless no test ever compared them.
RangesCompared == \A g \in LiveGroups : g \notin unchecked => groups[g].min <= groups[g].max

IInv == MenuShapes /\ DishesOnMenu /\ CallsCompared /\ RangesCompared

-----------------------------------------------------------------------------
\* A group is live when its row is and belongs to a dish.
LEMMA LiveGroup == \A g : g \in LiveGroups <=> /\ g \in Groups /\ groups[g].state = "live"
                                              /\ groups[g].dish \in Dishes
  BY DEF LiveGroups, GroupsOf

\* The same in the next state.
LEMMA LiveGroupNext ==
  \A g : (g \in LiveGroups)' <=> /\ g \in Groups /\ groups'[g].state = "live"
                                /\ groups'[g].dish \in Dishes
  BY DEF LiveGroups, GroupsOf

\* A field the client did not send keeps the column's value.
LEMMA SentProperties ==
  /\ \A column : Sent(Unsent, column) = column
  /\ \A field, column : field # Unsent => Sent(field, column) = field
  BY DEF Sent

\* The invariant holds with an empty menu.
LEMMA InitIInv == MenuInit => IInv
<1> SUFFICES ASSUME MenuInit PROVE IInv
  OBVIOUS
<1>1. MenuShapes
  <2>3. CallsShape
    BY DEF MenuInit, CallsShape, IsCall, NoMenuCall
  <2>4. menuLines \in Seq(ToSet(menuLines))
    BY DEF MenuInit
  <2> QED
    BY <2>3, <2>4 DEF MenuInit, MenuShapes, NoDish, NoGroup
<1>2. DishesOnMenu
  BY DEF MenuInit, DishesOnMenu, LiveDishes, NoDish
<1>3. CallsCompared
  BY DEF MenuInit, CallsCompared, NoMenuCall
<1>4. RangesCompared
  BY LiveGroup DEF MenuInit, RangesCompared, NoGroup
<1> QED
  BY <1>1, <1>2, <1>3, <1>4 DEF IInv

\* The empty slot is a slot.
LEMMA NoCall == IsCall(NoMenuCall) /\ NoMenuCall.at = "idle"
  BY DEF IsCall, NoMenuCall

\* A change of the menu leaves what updates in flight were compared with.
LEMMA MenuChangedKeepsCalls ==
  ASSUME IInv, NEW over, MenuChanged(over)
  PROVE  CallsShape' /\ CallsCompared'
<1>1. ASSUME NEW c \in MenuCalls
      PROVE  /\ IsCall(menuCalls'[c])
             /\ menuCalls'[c].at = "updateGroup" =>
                  /\ menuCalls[c].at = "updateGroup" /\ menuCalls'[c].min = menuCalls[c].min
                  /\ menuCalls'[c].max = menuCalls[c].max
                  /\ menuCalls'[c].read = menuCalls[c].read
  <2>1. CASE c \in over
    <3>1. menuCalls'[c] = NoMenuCall
      BY <2>1 DEF MenuChanged
    <3> QED
      BY <3>1, NoCall
  <2>2. CASE c \notin over
    <3>1. PICK o : menuCalls'[c] = [menuCalls[c] EXCEPT !.overtaken = o]
      BY <2>2 DEF MenuChanged
    <3>2. IsCall(menuCalls[c])
      BY DEF IInv, MenuShapes, CallsShape
    <3>3. menuCalls'[c] = [at |-> menuCalls[c].at, dish |-> menuCalls[c].dish,
                   chosen |-> menuCalls[c].chosen, delta |-> menuCalls[c].delta,
                   group |-> menuCalls[c].group, min |-> menuCalls[c].min,
                   max |-> menuCalls[c].max, read |-> menuCalls[c].read, overtaken |-> o]
      BY <3>1, <3>2 DEF IsCall
    <3> QED
      BY <3>3 DEF IsCall
  <2> QED
    BY <2>1, <2>2
<1>2. CallsCompared'
  BY <1>1 DEF IInv, CallsCompared, Compared
<1>3. menuCalls' = [c \in MenuCalls |-> menuCalls'[c]]
  BY DEF MenuChanged
<1> QED
  BY <1>1, <1>2, <1>3 DEF CallsShape

\* A request moves on.
LEMMA CallMovesKeepsCalls ==
  ASSUME IInv, NEW c \in MenuCalls, NEW call, IsCall(call),
         menuCalls' = [menuCalls EXCEPT ![c] = call],
         call.at = "updateGroup" => Compared(call)
  PROVE  CallsShape' /\ CallsCompared'
<1>1. /\ \A d \in MenuCalls : menuCalls'[d] = IF d = c THEN call ELSE menuCalls[d]
      /\ menuCalls' = [d \in MenuCalls |-> menuCalls'[d]]
  BY DEF IInv, MenuShapes, CallsShape
<1>2. CallsShape'
  BY <1>1 DEF CallsShape, IInv, MenuShapes
<1>3. ASSUME NEW d \in MenuCalls, menuCalls'[d].at = "updateGroup"
      PROVE  Compared(menuCalls'[d])
  BY <1>1, <1>3 DEF IInv, CallsCompared
<1>4. CallsCompared'
  BY <1>3 DEF CallsCompared, Compared
<1> QED
  BY <1>2, <1>4

\* A step that leaves the dishes, their groups and their lines alone.
LEMMA OnlyCallsMove ==
  ASSUME IInv, CallsShape', CallsCompared',
         UNCHANGED <<categories, dishes, groups, menuLines, unchecked>>
  PROVE  IInv'
<1>1. MenuShapes'
  BY DEF IInv, MenuShapes, ToSet
<1>2. DishesOnMenu'
  BY DEF IInv, DishesOnMenu, LiveDishes, LiveCategories
<1>3. RangesCompared'
  BY LiveGroup, LiveGroupNext DEF IInv, RangesCompared
<1> QED
  BY <1>1, <1>2, <1>3 DEF IInv

\* A step that edits groups only.
LEMMA OnlyGroupsChange ==
  ASSUME IInv, CallsShape', CallsCompared',
         UNCHANGED <<categories, dishes, menuLines>>,
         groups' \in [Groups -> [state : {"absent", "live", "gone"}, dish : Dishes \cup {Null},
                                 required : BOOLEAN, min : Nat, max : Nat]],
         \A g \in Groups :
           \/ (groups'[g] = groups[g] /\ (g \in unchecked => g \in unchecked'))
           \/ groups'[g].state # "live"
           \/ g \in unchecked'
           \/ groups'[g].min <= groups'[g].max
  PROVE  IInv'
<1>1. MenuShapes'
  BY DEF IInv, MenuShapes, ToSet
<1>2. DishesOnMenu'
  BY DEF IInv, DishesOnMenu, LiveDishes, LiveCategories
<1>3. RangesCompared'
  BY LiveGroup, LiveGroupNext DEF IInv, RangesCompared
<1> QED
  BY <1>1, <1>2, <1>3 DEF IInv

\* A step that edits dishes and categories only: what a line or a dish needs is
\* still there.
LEMMA OnlyDishesChange ==
  ASSUME IInv, CallsShape', CallsCompared',
         UNCHANGED <<groups, menuLines, unchecked>>,
         categories' \in [Categories -> {"absent", "live", "gone"}],
         dishes' \in [Dishes -> [state : {"absent", "live", "gone"}, available : BOOLEAN,
                                 category : Categories \cup {Null}]],
         \A n \in DOMAIN menuLines : menuLines[n].dish \in LiveDishes',
         \A d \in LiveDishes' : dishes'[d].category \in LiveCategories'
  PROVE  IInv'
<1>1. MenuShapes'
  BY DEF IInv, MenuShapes, ToSet
<1>2. DishesOnMenu'
  BY DEF DishesOnMenu
<1>3. RangesCompared'
  BY LiveGroup, LiveGroupNext DEF IInv, RangesCompared
<1> QED
  BY <1>1, <1>2, <1>3 DEF IInv

-----------------------------------------------------------------------------
\* Categories and dishes.

\* A step that leaves the slots alone leaves what they hold.
LEMMA SameCalls == IInv /\ UNCHANGED menuCalls => CallsShape' /\ CallsCompared'
  BY DEF IInv, MenuShapes, CallsShape, IsCall, CallsCompared, Compared

\* Edits of categories and dishes.
LEMMA DishEditsKeepIInv ==
  ASSUME IInv, EditDishes
  PROVE  IInv'
<1> USE DEF IInv
<1>1. ASSUME NEW k \in Categories, CreateCategory(k) PROVE IInv'
  <2>1. /\ categories' \in [Categories -> {"absent", "live", "gone"}]
        /\ LiveCategories \subseteq LiveCategories' /\ LiveDishes' = LiveDishes
        /\ UNCHANGED <<dishes, groups, menuLines, menuCalls, unchecked>>
    BY <1>1 DEF CreateCategory, MenuShapes, LiveCategories, LiveDishes
  <2> QED
    BY <2>1, SameCalls, OnlyDishesChange DEF MenuShapes, DishesOnMenu
<1>2. ASSUME NEW k \in Categories, RemoveCategory(k) PROVE IInv'
  <2>1. /\ categories' \in [Categories -> {"absent", "live", "gone"}]
        /\ LiveCategories' = LiveCategories \ {k} /\ LiveDishes' = LiveDishes
        /\ \A d \in LiveDishes : dishes[d].category # k
        /\ UNCHANGED <<dishes, groups, menuLines, menuCalls, unchecked>>
    BY <1>2 DEF RemoveCategory, MenuShapes, LiveCategories, LiveDishes
  <2> QED
    BY <2>1, SameCalls, OnlyDishesChange DEF MenuShapes, DishesOnMenu
<1>3. ASSUME NEW d \in Dishes, NEW k \in Categories, NEW available \in Flags,
             CreateDish(d, k, available)
      PROVE  IInv'
  <2>1. Sent(available, TRUE) \in BOOLEAN
    BY MenuAssumption, SentProperties DEF MenuAssumption
  <2>2. /\ dishes' = [dishes EXCEPT ![d] =
             [state |-> "live", available |-> Sent(available, TRUE), category |-> k]]
        /\ k \in LiveCategories
        /\ UNCHANGED <<categories, groups, menuLines, menuCalls, unchecked>>
    BY <1>3 DEF CreateDish
  <2>3. /\ dishes' \in [Dishes -> [state : {"absent", "live", "gone"}, available : BOOLEAN,
                                   category : Categories \cup {Null}]]
        /\ \A x \in Dishes \ {d} : dishes'[x] = dishes[x]
        /\ dishes'[d].state = "live" /\ dishes'[d].category = k
    BY <2>1, <2>2 DEF MenuShapes
  <2>4. LiveCategories' = LiveCategories /\ LiveDishes' = LiveDishes \cup {d}
    BY <2>2, <2>3 DEF LiveCategories, LiveDishes
  <2>5. \A x \in LiveDishes' : dishes'[x].category \in LiveCategories'
    BY <2>2, <2>3, <2>4 DEF DishesOnMenu, LiveDishes
  <2>6. \A n \in DOMAIN menuLines : menuLines[n].dish \in LiveDishes'
    BY <2>4 DEF DishesOnMenu
  <2> QED
    BY <2>2, <2>3, <2>4, <2>5, <2>6, SameCalls, OnlyDishesChange DEF MenuShapes
<1>4. ASSUME NEW d \in Dishes, NEW k \in Categories, NEW available \in BOOLEAN,
             UpdateDish(d, k, available)
      PROVE  IInv'
  <2>1. /\ dishes' = [dishes EXCEPT ![d].category = k, ![d].available = available]
        /\ d \in LiveDishes /\ k \in LiveCategories /\ MenuChanged({})
        /\ UNCHANGED <<categories, groups, menuLines, unchecked>>
    BY <1>4 DEF UpdateDish
  <2>2. /\ dishes' \in [Dishes -> [state : {"absent", "live", "gone"}, available : BOOLEAN,
                                   category : Categories \cup {Null}]]
        /\ \A x \in Dishes \ {d} : dishes'[x] = dishes[x]
        /\ dishes'[d].state = dishes[d].state /\ dishes'[d].category = k
    BY <2>1 DEF MenuShapes
  <2>3. LiveCategories' = LiveCategories /\ LiveDishes' = LiveDishes
    BY <2>1, <2>2 DEF LiveCategories, LiveDishes
  <2>4. \A x \in LiveDishes' : dishes'[x].category \in LiveCategories'
    BY <2>1, <2>2, <2>3 DEF DishesOnMenu, LiveDishes
  <2> QED
    BY <2>1, <2>2, <2>3, <2>4, MenuChangedKeepsCalls, OnlyDishesChange DEF MenuShapes, DishesOnMenu
<1> QED
  BY <1>1, <1>2, <1>3, <1>4 DEF EditDishes

\* Groups and options.  A bound that was left out is compared with the default,
\* or the group is marked.
LEMMA GroupEditsKeepIInv ==
  ASSUME IInv, EditGroups
  PROVE  IInv'
<1> DEFINE GroupRows == [state : {"absent", "live", "gone"}, dish : Dishes \cup {Null},
                         required : BOOLEAN, min : Nat, max : Nat]
<1>1. ASSUME NEW g \in Groups, NEW d \in Dishes, NEW required \in Flags,
             NEW min \in MinSelects \cup {Unsent}, NEW max \in MaxSelects \cup {Unsent},
             NEW first \in SUBSET Options, NEW available \in Flags, NEW delta \in OptionDeltas,
             CreateGroup(g, d, required, min, max, first, available, delta)
      PROVE  IInv'
  <2>1. /\ assertMinMax(min, max) /\ MenuChanged({})
        /\ UNCHANGED <<categories, dishes, menuLines>>
        /\ groups' = [groups EXCEPT ![g] =
             [state |-> "live", dish |-> d, required |-> Sent(required, FALSE),
              min |-> Sent(min, 0), max |-> Sent(max, 1)]]
        /\ unchecked \subseteq unchecked'
        /\ max = Unsent /\ min # Unsent /\ min > 1 => g \in unchecked'
    BY <1>1 DEF CreateGroup
  <2>2. /\ Sent(required, FALSE) \in BOOLEAN
        /\ Sent(min, 0) \in Nat /\ Sent(max, 1) \in Nat
    <3>1. required \in BOOLEAN \/ required = Unsent
      BY MenuAssumption DEF MenuAssumption
    <3>2. Sent(required, FALSE) \in BOOLEAN
      BY <3>1, SentProperties
    <3>3. (min \in Nat \/ min = Unsent) /\ (max \in Nat \/ max = Unsent)
      BY MenuAssumption DEF MenuAssumption
    <3>4. Sent(min, 0) \in Nat /\ Sent(max, 1) \in Nat
      BY <3>3 DEF Sent
    <3> QED
      BY <3>2, <3>4
  <2>3. g \in unchecked' \/ Sent(min, 0) <= Sent(max, 1)
    <3>1. CASE min = Unsent
      BY <2>2, <3>1, SentProperties
    <3>2. CASE min # Unsent /\ max # Unsent
      BY <2>1, <3>2, SentProperties DEF assertMinMax
    <3>3. CASE min # Unsent /\ max = Unsent
      <4>1. Sent(min, 0) = min /\ Sent(max, 1) = 1
        BY <3>3, SentProperties
      <4> QED
        BY <2>1, <2>2, <3>3, <4>1
    <3> QED
      BY <3>1, <3>2, <3>3
  <2>4. /\ groups' \in [Groups -> GroupRows]
        /\ \A x \in Groups \ {g} : groups'[x] = groups[x]
        /\ groups'[g].min = Sent(min, 0) /\ groups'[g].max = Sent(max, 1)
    BY <2>1, <2>2 DEF IInv, MenuShapes
  <2>5. CallsShape' /\ CallsCompared'
    BY <2>1, MenuChangedKeepsCalls
  <2>6. \A x \in Groups :
           \/ (groups'[x] = groups[x] /\ (x \in unchecked => x \in unchecked'))
           \/ groups'[x].state # "live"
           \/ x \in unchecked'
           \/ groups'[x].min <= groups'[x].max
    BY <2>1, <2>3, <2>4
  <2> QED
    BY <2>1, <2>4, <2>5, <2>6, OnlyGroupsChange
<1>2. ASSUME NEW g \in Groups, RemoveGroup(g) PROVE IInv'
  <2>1. /\ groups' = [groups EXCEPT ![g] = NoGroup("gone")] /\ unchecked' = unchecked \ {g}
        /\ MenuChanged({})
        /\ UNCHANGED <<categories, dishes, menuLines>>
    BY <1>2 DEF RemoveGroup
  <2>2. /\ groups' \in [Groups -> GroupRows]
        /\ \A x \in Groups \ {g} : groups'[x] = groups[x]
        /\ groups'[g].state # "live"
    BY <2>1 DEF IInv, MenuShapes, NoGroup
  <2>3. CallsShape' /\ CallsCompared'
    BY <2>1, MenuChangedKeepsCalls
  <2>4. \A x \in Groups :
           \/ (groups'[x] = groups[x] /\ (x \in unchecked => x \in unchecked'))
           \/ groups'[x].state # "live"
           \/ x \in unchecked'
           \/ groups'[x].min <= groups'[x].max
    BY <2>1, <2>2
  <2> QED
    BY <2>1, <2>2, <2>3, <2>4, OnlyGroupsChange
<1>3. ASSUME NEW m \in Options,
             \/ \E g \in Groups, available \in Flags, delta \in OptionDeltas :
                  AddOption(m, g, available, delta)
             \/ \E available \in BOOLEAN, delta \in OptionDeltas : UpdateOption(m, available, delta)
             \/ RemoveOption(m)
      PROVE  IInv'
  <2>1. MenuChanged({}) /\ UNCHANGED <<categories, dishes, groups, menuLines, unchecked>>
    BY <1>3 DEF AddOption, UpdateOption, RemoveOption
  <2> QED
    BY <2>1, MenuChangedKeepsCalls, OnlyCallsMove
<1> QED
  BY <1>1, <1>2, <1>3 DEF EditGroups

\* Requests that take several steps.  The lines of orders grow, and a dish with
\* none of them goes with its groups.
LEMMA InsertKeepsIInv ==
  ASSUME IInv, NEW c \in MenuCalls, InsertLine(c)
  PROVE  IInv'
<1>1. PICK line : menuLines' = Append(menuLines, line) /\ line.dish \in LiveDishes
  BY DEF InsertLine
<1>2. /\ menuCalls' = [menuCalls EXCEPT ![c] = NoMenuCall]
      /\ UNCHANGED <<categories, dishes, groups, unchecked>>
  BY DEF InsertLine
<1>3. CallsShape' /\ CallsCompared'
  BY <1>2, NoCall, CallMovesKeepsCalls
<1> DEFINE T == ToSet(menuLines) \cup {line}
<1>4. menuLines \in Seq(T)
  BY SeqMonotonic DEF IInv, MenuShapes
<1> HIDE DEF T
<1>5. line \in T
  BY DEF T
<1>6. /\ menuLines' \in Seq(T)
      /\ DOMAIN menuLines' = 1..(Len(menuLines) + 1)
      /\ menuLines'[Len(menuLines) + 1] = line
      /\ \A n \in 1..Len(menuLines) : menuLines'[n] = menuLines[n]
      /\ DOMAIN menuLines = 1..Len(menuLines) /\ Len(menuLines) \in Nat
  BY <1>1, <1>4, <1>5, AppendProperties, LenProperties
<1>7. menuLines' \in Seq(ToSet(menuLines'))
  <2> DEFINE L == menuLines'
  <2>1. L \in Seq(T)
    BY <1>6
  <2> HIDE DEF L
  <2>2. L \in [1..Len(L) -> T] /\ Len(L) \in Nat /\ DOMAIN L = 1..Len(L)
    BY <2>1, LenProperties
  <2>3. L \in [1..Len(L) -> ToSet(L)]
    BY <2>2 DEF ToSet
  <2>4. L \in Seq(ToSet(L))
    BY <2>2, <2>3, SeqDef
  <2> QED
    BY <2>4 DEF L
<1>8. MenuShapes'
  BY <1>2, <1>3, <1>7 DEF IInv, MenuShapes, ToSet
<1>9. LiveDishes' = LiveDishes /\ LiveCategories' = LiveCategories
  BY <1>2 DEF LiveDishes, LiveCategories
<1>10. \A n \in DOMAIN menuLines' : menuLines'[n].dish \in LiveDishes
  BY <1>1, <1>6 DEF IInv, DishesOnMenu
<1>11. DishesOnMenu'
  BY <1>2, <1>9, <1>10 DEF IInv, DishesOnMenu
<1>12. RangesCompared'
  BY <1>2, LiveGroup, LiveGroupNext DEF IInv, RangesCompared
<1> QED
  BY <1>3, <1>8, <1>11, <1>12 DEF IInv

\* The deletion of a dish.
LEMMA DeleteKeepsIInv ==
  ASSUME IInv, NEW c \in MenuCalls, DeleteDish(c)
  PROVE  IInv'
<1>1. PICK d \in LiveDishes : LinesOf(d) = {} /\ DishGone(d) /\ MenuChanged({c})
  BY DEF DeleteDish
<1>2. CallsShape' /\ CallsCompared'
  BY <1>1, MenuChangedKeepsCalls
<1>3. /\ dishes' = [dishes EXCEPT ![d] = NoDish("gone")]
      /\ groups' = [g \in Groups |-> IF g \in GroupsOf(d) THEN NoGroup("gone") ELSE groups[g]]
      /\ unchecked' = unchecked \ GroupsOf(d)
      /\ UNCHANGED <<categories, menuLines>>
  BY <1>1 DEF DishGone
<1>4. /\ NoGroup("gone").state = "gone" /\ NoDish("gone").state = "gone"
      /\ NoGroup("gone") \in [state : {"absent", "live", "gone"}, dish : Dishes \cup {Null},
                              required : BOOLEAN, min : Nat, max : Nat]
      /\ NoDish("gone") \in [state : {"absent", "live", "gone"}, available : BOOLEAN,
                             category : Categories \cup {Null}]
  BY DEF NoGroup, NoDish
<1>5. /\ d \in Dishes
      /\ \A x \in Dishes : dishes'[x] = IF x = d THEN NoDish("gone") ELSE dishes[x]
      /\ dishes' \in [Dishes -> [state : {"absent", "live", "gone"}, available : BOOLEAN,
                                 category : Categories \cup {Null}]]
  BY <1>3, <1>4 DEF IInv, MenuShapes, LiveDishes
<1>6. groups' \in [Groups -> [state : {"absent", "live", "gone"}, dish : Dishes \cup {Null},
                              required : BOOLEAN, min : Nat, max : Nat]]
  BY <1>3, <1>4 DEF IInv, MenuShapes
<1>7. MenuShapes'
  BY <1>2, <1>3, <1>5, <1>6 DEF IInv, MenuShapes, ToSet
<1>8. LiveDishes' = LiveDishes \ {d} /\ LiveCategories' = LiveCategories
  BY <1>3, <1>4, <1>5 DEF LiveDishes, LiveCategories
<1>9. \A n \in DOMAIN menuLines : menuLines[n].dish # d
  BY <1>1 DEF LinesOf
<1>10. \A x \in LiveDishes' : dishes'[x].category \in LiveCategories'
  BY <1>5, <1>8 DEF IInv, DishesOnMenu, LiveDishes
<1>11. DishesOnMenu'
  BY <1>3, <1>8, <1>9, <1>10 DEF IInv, DishesOnMenu
<1>12. RangesCompared'
  BY <1>3, <1>4, LiveGroup, LiveGroupNext DEF IInv, RangesCompared
<1> QED
  BY <1>2, <1>7, <1>11, <1>12 DEF IInv

\* The update of a group compares before it writes, and marks the group when
\* the row it was compared with is another one by then.
LEMMA UpdateGroupKeepsIInv ==
  ASSUME IInv, NEW c \in MenuCalls, NEW required \in Flags, UpdateGroup(c, required)
  PROVE  IInv'
<1>0. PICK call, g : call = menuCalls[c] /\ g = menuCalls[c].group
  OBVIOUS
<1>1. /\ g \in LiveGroups /\ call.at = "updateGroup"
      /\ groups' = [groups EXCEPT ![g].required = Sent(required, groups[g].required),
                                  ![g].min = Sent(call.min, groups[g].min),
                                  ![g].max = Sent(call.max, groups[g].max)]
      /\ unchecked' = IF call.read \notin {Null, GroupRange(g)}
                      THEN unchecked \cup {g} ELSE unchecked \ {g}
      /\ MenuChanged({c})
      /\ UNCHANGED <<categories, dishes, menuLines>>
  BY <1>0 DEF UpdateGroup
<1>2. CallsShape' /\ CallsCompared'
  BY <1>1, MenuChangedKeepsCalls
<1>3. Compared(call)
  BY <1>0, <1>1 DEF IInv, CallsCompared
<1>4. /\ groups[g] \in [state : {"absent", "live", "gone"}, dish : Dishes \cup {Null},
                        required : BOOLEAN, min : Nat, max : Nat]
      /\ g \in Groups
  BY <1>1, LiveGroup DEF IInv, MenuShapes
<1>5. /\ Sent(required, groups[g].required) \in BOOLEAN
      /\ Sent(call.min, groups[g].min) \in Nat
      /\ Sent(call.max, groups[g].max) \in Nat
  <2>1. required \in BOOLEAN \/ required = Unsent
    BY MenuAssumption DEF MenuAssumption
  <2>2. groups[g].required \in BOOLEAN /\ groups[g].min \in Nat /\ groups[g].max \in Nat
    BY <1>4
  <2>3. Sent(required, groups[g].required) \in BOOLEAN
    BY <2>1, <2>2, SentProperties
  <2>4. Sent(call.min, groups[g].min) \in Nat /\ Sent(call.max, groups[g].max) \in Nat
    BY <1>3, <2>2 DEF Compared, Sent
  <2> QED
    BY <2>3, <2>4
<1>6. PICK r \in BOOLEAN, lo \in Nat, hi \in Nat :
        /\ r = Sent(required, groups[g].required)
        /\ lo = Sent(call.min, groups[g].min) /\ hi = Sent(call.max, groups[g].max)
  BY <1>5
<1>7. /\ groups' \in [Groups -> [state : {"absent", "live", "gone"}, dish : Dishes \cup {Null},
                                 required : BOOLEAN, min : Nat, max : Nat]]
      /\ \A x \in Groups \ {g} : groups'[x] = groups[x]
      /\ groups'[g].min = Sent(call.min, groups[g].min)
      /\ groups'[g].max = Sent(call.max, groups[g].max)
  <2>1. groups' = [groups EXCEPT ![g].required = r, ![g].min = lo, ![g].max = hi]
    BY <1>1, <1>6
  <2>2. /\ groups' \in [Groups -> [state : {"absent", "live", "gone"}, dish : Dishes \cup {Null},
                                   required : BOOLEAN, min : Nat, max : Nat]]
        /\ \A x \in Groups \ {g} : groups'[x] = groups[x]
        /\ groups'[g].min = lo /\ groups'[g].max = hi
    BY <1>4, <2>1 DEF IInv, MenuShapes
  <2> QED
    BY <1>6, <2>2
<1>8. g \in unchecked' \/ groups'[g].min <= groups'[g].max
  <2> SUFFICES ASSUME call.read \in {Null, GroupRange(g)}
               PROVE  groups'[g].min <= groups'[g].max
    BY <1>1
  <2>1. CASE call.min # Unsent /\ call.max # Unsent /\ call.min <= call.max
    BY <1>7, <2>1, SentProperties
  <2>2. ASSUME NEW low \in Nat, NEW high \in Nat, call.read = <<low, high>>,
               Sent(call.min, low) <= Sent(call.max, high)
        PROVE  groups'[g].min <= groups'[g].max
    <3>1. call.read # Null
      BY <2>2, MenuAssumption DEF MenuAssumption
    <3>2. low = groups[g].min /\ high = groups[g].max
      BY <2>2, <3>1 DEF GroupRange
    <3> QED
      BY <1>7, <2>2, <3>2
  <2> QED
    BY <1>3, <2>1, <2>2 DEF Compared
<1>9. \A x \in Groups :
        \/ (groups'[x] = groups[x] /\ (x \in unchecked => x \in unchecked'))
        \/ groups'[x].state # "live"
        \/ x \in unchecked'
        \/ groups'[x].min <= groups'[x].max
  BY <1>1, <1>7, <1>8
<1> QED
  BY <1>1, <1>2, <1>7, <1>9, OnlyGroupsChange

\* Every other step of a request only remembers what it read.
LEMMA RememberKeepsIInv ==
  ASSUME IInv, NEW c \in MenuCalls,
         \/ \E d \in Dishes : RequestDishRemoval(c, d) \/ RequestLine(c, d)
         \/ \E ids \in Selections : ResolveLine(c, ids)
         \/ AbandonMenuCall(c)
         \/ \E g \in Groups, min \in MinSelects \cup {Unsent}, max \in MaxSelects \cup {Unsent} :
              RequestGroupUpdate(c, g, min, max)
  PROVE  IInv'
<1>1. UNCHANGED <<categories, dishes, groups, menuLines, unchecked>>
  BY DEF RequestDishRemoval, RequestLine, ResolveLine, AbandonMenuCall, RequestGroupUpdate
<1>2. ASSUME NEW d \in Dishes, RequestDishRemoval(c, d) \/ RequestLine(c, d)
      PROVE  CallsShape' /\ CallsCompared'
  <2>1. PICK at \in {"deleteDish", "resolve"} :
          menuCalls' = [menuCalls EXCEPT ![c] = [NoMenuCall EXCEPT !.at = at, !.dish = d]]
    BY <1>2 DEF RequestDishRemoval, RequestLine
  <2>2. PICK call : call = [NoMenuCall EXCEPT !.at = at, !.dish = d]
    OBVIOUS
  <2>3. IsCall(call) /\ call.at = at
    BY <2>2, NoCall DEF IsCall
  <2> QED
    BY <2>1, <2>2, <2>3, CallMovesKeepsCalls
<1>3. ASSUME NEW ids \in Selections, ResolveLine(c, ids)
      PROVE  CallsShape' /\ CallsCompared'
  <2>1. PICK chosen, delta :
          menuCalls' = [menuCalls EXCEPT ![c].at = "insertLine", ![c].chosen = chosen,
                                         ![c].delta = delta]
    BY <1>3 DEF ResolveLine
  <2>2. PICK call : call = [menuCalls[c] EXCEPT !.at = "insertLine", !.chosen = chosen, !.delta = delta]
    OBVIOUS
  <2>3. IsCall(menuCalls[c]) /\ menuCalls = [d \in MenuCalls |-> menuCalls[d]]
    BY DEF IInv, MenuShapes, CallsShape
  <2>4. call = [at |-> "insertLine", dish |-> menuCalls[c].dish, chosen |-> chosen,
                delta |-> delta, group |-> menuCalls[c].group, min |-> menuCalls[c].min,
                max |-> menuCalls[c].max, read |-> menuCalls[c].read,
                overtaken |-> menuCalls[c].overtaken]
    BY <2>2, <2>3 DEF IsCall
  <2>5. menuCalls' = [menuCalls EXCEPT ![c] = call]
    BY <2>1, <2>2, <2>3
  <2>6. IsCall(call) /\ call.at # "updateGroup"
    BY <2>4 DEF IsCall
  <2> QED
    BY <2>5, <2>6, CallMovesKeepsCalls
<1>4. CASE AbandonMenuCall(c)
  <2>1. CallsShape' /\ CallsCompared'
    BY <1>4, NoCall, CallMovesKeepsCalls DEF AbandonMenuCall
  <2> QED
    BY <1>1, <2>1, OnlyCallsMove
<1>5. ASSUME NEW g \in Groups, NEW min \in MinSelects \cup {Unsent},
             NEW max \in MaxSelects \cup {Unsent}, RequestGroupUpdate(c, g, min, max)
      PROVE  CallsShape' /\ CallsCompared'
  <2>1. PICK read :
          /\ read = IF Unsent \in {min, max} THEN GroupRange(g) ELSE Null
          /\ menuCalls' = [menuCalls EXCEPT ![c] =
               [NoMenuCall EXCEPT !.at = "updateGroup", !.group = g, !.min = min, !.max = max,
                                  !.read = read]]
    BY <1>5 DEF RequestGroupUpdate
  <2>2. PICK call : call = [NoMenuCall EXCEPT !.at = "updateGroup", !.group = g, !.min = min,
                                              !.max = max, !.read = read]
    OBVIOUS
  <2>3. /\ menuCalls' = [menuCalls EXCEPT ![c] = call] /\ IsCall(call)
        /\ call.min = min /\ call.max = max /\ call.read = read
    BY <2>1, <2>2, NoCall DEF IsCall
  <2>4. min \in Nat \cup {Unsent} /\ max \in Nat \cup {Unsent}
    BY MenuAssumption DEF MenuAssumption
  <2>5. groups[g].min \in Nat /\ groups[g].max \in Nat
    BY DEF IInv, MenuShapes
  <2>6. Sent(min, groups[g].min) <= Sent(max, groups[g].max)
    <3>1. Sent(min, groups[g].min) # Unsent /\ Sent(max, groups[g].max) # Unsent
      BY <2>4, <2>5, SentProperties, MenuAssumption DEF MenuAssumption
    <3> QED
      BY <1>5, <3>1 DEF RequestGroupUpdate, assertMinMax
  <2>7. CASE Unsent \in {min, max}
    <3>1. read = <<groups[g].min, groups[g].max>>
      BY <2>1, <2>7 DEF GroupRange
    <3>2. \E low \in Nat, high \in Nat :
            call.read = <<low, high>> /\ Sent(call.min, low) <= Sent(call.max, high)
      BY <2>3, <2>5, <2>6, <3>1
    <3>3. Compared(call)
      BY <2>3, <2>4, <3>2 DEF Compared
    <3> QED
      BY <2>3, <3>3, CallMovesKeepsCalls
  <2>8. CASE min # Unsent /\ max # Unsent
    <3>1. min <= max
      BY <2>6, <2>8, SentProperties
    <3>2. Compared(call)
      BY <2>3, <2>4, <2>8, <3>1 DEF Compared
    <3> QED
      BY <2>3, <3>2, CallMovesKeepsCalls
  <2> QED
    BY <2>7, <2>8
<1> QED
  BY <1>1, <1>2, <1>3, <1>4, <1>5, OnlyCallsMove

\* Every step preserves the invariant.
LEMMA NextKeepsIInv == IInv /\ [MenuNext]_menuVars => IInv'
<1> SUFFICES ASSUME IInv, [MenuNext]_menuVars PROVE IInv'
  OBVIOUS
<1>1. CASE EditDishes
  BY <1>1, DishEditsKeepIInv
<1>2. CASE EditGroups
  BY <1>2, GroupEditsKeepIInv
<1>3. ASSUME NEW c \in MenuCalls, MenuRequest(c) PROVE IInv'
  BY <1>3, DeleteKeepsIInv, UpdateGroupKeepsIInv, InsertKeepsIInv, RememberKeepsIInv
     DEF MenuRequest
<1>4. CASE UNCHANGED menuVars
  BY <1>4, SameCalls, OnlyCallsMove DEF menuVars
<1> QED
  BY <1>1, <1>2, <1>3, <1>4 DEF MenuNext

-----------------------------------------------------------------------------
\* The invariant holds in every state of the menu's handlers.
THEOREM MenuInvariance == MenuSpec => []IInv
<1>1. MenuInit => IInv
  BY InitIInv
<1>2. IInv /\ [MenuNext]_menuVars => IInv'
  BY NextKeepsIInv
<1> QED
  BY <1>1, <1>2, PTL DEF MenuSpec

\* A dish on an order line is never deleted, and neither is its category: the
\* count in menu-items.service.ts may be outdated, the foreign key is not.
THEOREM OrderedDishesStay == MenuSpec => []OrderedDishStays
<1>1. IInv => OrderedDishStays
  BY DEF IInv, DishesOnMenu, OrderedDishStays
<1> QED
  BY <1>1, MenuInvariance, PTL

\* The two bounds of a modifier group are in order (assertMinMax of
\* modifiers.service.ts) unless one was left to a default, or an update of the
\* other came between its test and its write.
THEOREM ComparedRangesHold == MenuSpec => []RangesCompared
<1>1. IInv => RangesCompared
  BY DEF IInv
<1> QED
  BY <1>1, MenuInvariance, PTL
-----------------------------------------------------------------------------
\* What a list of options costs and counts.

OptionRecords ==
  [state : {"absent", "live", "gone"}, group : Groups \cup {Null}, available : BOOLEAN, delta : Int]

OptionsTyped == options \in [Options -> OptionRecords]

\* The prices of the options.
Prices == [m \in Options |-> options[m].delta]

\* What a set of options costs.
CostOf(S) == MapThenSumSet(LAMBDA m : options[m].delta, S)

\* The sum of the community modules, of the prices.
LEMMA CostIsSum ==
  ASSUME OptionsTyped, NEW S \in SUBSET Options
  PROVE  CostOf(S) = SumOver(Prices, S)
<1>1. IsFiniteSet(S)
  BY FS_Subset, MenuAssumption
<1>2. PICK f : f = Prices
  OBVIOUS
<1>3. \A m \in S : f[m] = options[m].delta /\ f[m] \in Int
  BY <1>2 DEF Prices, OptionsTyped, OptionRecords
<1>4. PICK g \in [SUBSET S -> Int] : IsSum(f, S, g)
  BY <1>1, <1>3, SumExists
<1> DEFINE iter == CHOOSE it : it = [s \in SUBSET S |->
                     IF s = {} THEN 0 ELSE options[First(s)].delta + it[s \ {First(s)}]]
<1>5. IsSum(f, S, iter)
  <2>1. \A s \in SUBSET S : s # {} => f[First(s)] = options[First(s)].delta
    <3>1. \A s \in SUBSET S : s # {} => First(s) \in S
      BY FirstIn
    <3> QED
      BY <1>3, <3>1
  <2>2. g = [s \in SUBSET S |-> IF s = {} THEN 0 ELSE options[First(s)].delta + g[s \ {First(s)}]]
    BY <1>4, <2>1 DEF IsSum
  <2>3. iter = [s \in SUBSET S |-> IF s = {} THEN 0 ELSE options[First(s)].delta + iter[s \ {First(s)}]]
    BY <2>2
  <2> HIDE DEF iter
  <2> QED
    BY <2>1, <2>3 DEF IsSum
<1>6. CostOf(S) = iter[S]
  BY DEF CostOf, MapThenSumSet, MapThenFoldSet, First
<1> HIDE DEF iter
<1>7. SumOver(f, S) = g[S]
  BY <1>1, <1>4, SumWithin
<1>8. iter = g
  BY <1>1, <1>4, <1>5, SumUnique
<1> QED
  BY <1>2, <1>6, <1>7, <1>8

\* One step of the loop over the list: the price of its option j is added.
PriceSteps(ids) == [j \in 1..Len(ids) |-> [v \in Int |-> v + options[ids[j]].delta]]

\* The loop is the left fold of these steps.
LEMMA DeltaIsFold ==
  ASSUME OptionsTyped, NEW ids \in Seq(Options)
  PROVE  \E g \in [SUBSET (1..Len(ids)) -> Int] :
           IsLeftFold(Len(ids), 0, PriceSteps(ids), g) /\ deltaCentsPerUnit(ids) = g[1..Len(ids)]
<1>1. PICK n \in Nat : n = Len(ids) /\ DOMAIN ids = 1..n
  BY LenProperties
<1>2. \A j \in 1..n : options[ids[j]].delta \in Int
  <2>1. \A j \in 1..n : ids[j] \in Options
    BY <1>1, ElementOfSeq
  <2> QED
    BY <2>1 DEF OptionsTyped, OptionRecords
<1>3. \A j \in 1..n : \A v \in Int : /\ PriceSteps(ids)[j][v] = v + options[ids[j]].delta
                                     /\ v + options[ids[j]].delta \in Int
  BY <1>1, <1>2 DEF PriceSteps
<1>4. PICK g \in [SUBSET (1..n) -> Int] : IsLeftFold(n, 0, PriceSteps(ids), g)
  <2>1. PICK steps : steps = PriceSteps(ids)
    OBVIOUS
  <2>2. \A j \in 1..n : \A v \in Int : steps[j][v] \in Int
    BY <1>3, <2>1
  <2>3. 0 \in Int
    OBVIOUS
  <2>4. \E g \in [SUBSET (1..n) -> Int] : IsLeftFold(n, 0, steps, g)
    BY <2>2, <2>3, LeftFoldExists
  <2> QED
    BY <2>1, <2>4
<1>5. \A s \in SUBSET (1..n) : s # {} => Max(s) \in 1..n
  BY MaxIn
<1>6. PICK D : D = DOMAIN ids
  OBVIOUS
<1> DEFINE iter == CHOOSE it : it = [s \in SUBSET D |->
                     IF s = {} THEN 0 ELSE it[s \ {Max(s)}] + options[ids[Max(s)]].delta]
<1>7. \A s \in SUBSET (1..n) : s # {} =>
        PriceSteps(ids)[Max(s)][g[s \ {Max(s)}]] = g[s \ {Max(s)}] + options[ids[Max(s)]].delta
  <2> SUFFICES ASSUME NEW s \in SUBSET (1..n), s # {}
               PROVE  PriceSteps(ids)[Max(s)][g[s \ {Max(s)}]]
                        = g[s \ {Max(s)}] + options[ids[Max(s)]].delta
    OBVIOUS
  <2>1. g[s \ {Max(s)}] \in Int /\ Max(s) \in 1..n
    BY <1>5
  <2> QED
    BY <1>3, <2>1
<1>8. g = [s \in SUBSET D |-> IF s = {} THEN 0 ELSE g[s \ {Max(s)}] + options[ids[Max(s)]].delta]
  BY <1>1, <1>4, <1>6, <1>7 DEF IsLeftFold
<1>9. iter = [s \in SUBSET D |->
                IF s = {} THEN 0 ELSE iter[s \ {Max(s)}] + options[ids[Max(s)]].delta]
  BY <1>8
<1>10. deltaCentsPerUnit(ids) = iter[D]
  BY <1>6 DEF deltaCentsPerUnit, FoldLeft, MapThenFoldSet
<1> HIDE DEF iter
<1>11. \A s \in SUBSET D : iter[s] = g[s]
  <2> DEFINE Good == {s \in SUBSET D : iter[s] = g[s]}
  <2>1. IsFiniteSet(D)
    BY <1>1, <1>6, FS_Interval
  <2>2. ASSUME NEW T \in SUBSET D, \A U \in SUBSET T : U # T => U \in Good
        PROVE  T \in Good
    <3>1. CASE T = {}
      BY <1>8, <1>9, <3>1
    <3>2. CASE T # {}
      <4>1. Max(T) \in T /\ T \ {Max(T)} \in Good
        BY <1>1, <1>6, <2>2, <3>2, MaxIn
      <4> QED
        BY <1>8, <1>9, <3>2, <4>1
    <3> QED
      BY <3>1, <3>2
  <2>3. SUBSET D \subseteq Good
    <3> HIDE DEF Good
    <3> QED
      BY <2>1, <2>2, SubsetInduction
  <2> QED
    BY <2>3
<1> QED
  BY <1>1, <1>4, <1>6, <1>10, <1>11

\* The loop's result is an integer.
LEMMA DeltaType ==
  ASSUME OptionsTyped, NEW ids \in Seq(Options)
  PROVE  deltaCentsPerUnit(ids) \in Int
BY DeltaIsFold

\* What a list costs is what its options cost, as none of them comes twice.
LEMMA DeltaIsCost ==
  ASSUME OptionsTyped, NEW ids \in Seq(Options), IsInjective(ids)
  PROVE  deltaCentsPerUnit(ids) = CostOf(ToSet(ids))
<1>1. PICK n \in Nat : n = Len(ids) /\ DOMAIN ids = 1..n
  BY LenProperties
<1>2. \A j \in 1..n : ids[j] \in Options
  BY <1>1, ElementOfSeq
<1>3. PICK g \in [SUBSET (1..n) -> Int] :
        IsLeftFold(n, 0, PriceSteps(ids), g) /\ deltaCentsPerUnit(ids) = g[1..n]
  BY <1>1, DeltaIsFold
<1>4. PICK f : f = Prices
  OBVIOUS
<1>5. \A m \in Options : f[m] = options[m].delta /\ f[m] \in Int
  BY <1>4 DEF Prices, OptionsTyped, OptionRecords
<1>6. \A s \in SUBSET (1..n) : s # {} =>
        /\ Max(s) \in s /\ ids[Max(s)] \in Options
        /\ g[s] = g[s \ {Max(s)}] + f[ids[Max(s)]]
  <2> SUFFICES ASSUME NEW s \in SUBSET (1..n), s # {}
               PROVE  /\ Max(s) \in s /\ ids[Max(s)] \in Options
                      /\ g[s] = g[s \ {Max(s)}] + f[ids[Max(s)]]
    OBVIOUS
  <2>1. Max(s) \in s /\ Max(s) \in 1..n /\ ids[Max(s)] \in Options
    BY <1>2, MaxIn
  <2>2. g[s] = PriceSteps(ids)[Max(s)][g[s \ {Max(s)}]]
    BY <1>3 DEF IsLeftFold
  <2>3. g[s \ {Max(s)}] \in Int
    BY <1>3
  <2>4. PriceSteps(ids)[Max(s)][g[s \ {Max(s)}]] = g[s \ {Max(s)}] + options[ids[Max(s)]].delta
    BY <1>1, <2>1, <2>3 DEF PriceSteps
  <2> QED
    BY <1>5, <2>1, <2>2, <2>4
<1> DEFINE Image(T) == {ids[j] : j \in T}
<1>7. \A T \in SUBSET (1..n) : Image(T) \in SUBSET Options /\ IsFiniteSet(Image(T))
  <2> SUFFICES ASSUME NEW T \in SUBSET (1..n)
               PROVE  Image(T) \in SUBSET Options /\ IsFiniteSet(Image(T))
    OBVIOUS
  <2>1. Image(T) \in SUBSET Options
    BY <1>2
  <2> QED
    BY <2>1, FS_Subset, MenuAssumption
<1> DEFINE Good == {T \in SUBSET (1..n) : g[T] = SumOver(f, Image(T))}
<1>8. PICK D : D = 1..n
  OBVIOUS
<1>9. ASSUME NEW T \in SUBSET D, \A U \in SUBSET T : U # T => U \in Good
      PROVE  T \in Good
  <2>1. CASE T = {}
    <3>1. Image(T) = {}
      BY <2>1
    <3>2. g[T] = 0
      BY <1>3, <2>1 DEF IsLeftFold
    <3>3. SumOver(f, {}) = 0
      BY SumOfNone
    <3> QED
      BY <1>8, <3>1, <3>2, <3>3
  <2>2. CASE T # {}
    <3>1. PICK x : x = Max(T)
      OBVIOUS
    <3>2. x \in T /\ ids[x] \in Options /\ g[T] = g[T \ {x}] + f[ids[x]]
      BY <1>6, <1>8, <2>2, <3>1
    <3>3. Image(T \ {x}) = Image(T) \ {ids[x]}
      BY <1>1, <1>8, <3>2 DEF IsInjective
    <3>4. g[T \ {x}] = SumOver(f, Image(T) \ {ids[x]})
      <4>1. T \ {x} \in Good
        BY <1>9, <3>2
      <4> QED
        BY <3>3, <4>1
    <3>5. ids[x] \in Image(T)
      BY <3>2
    <3>6. Image(T) \in SUBSET Options /\ IsFiniteSet(Image(T))
      BY <1>7, <1>8
    <3> HIDE DEF Image
    <3>7. SumOver(f, Image(T)) = f[ids[x]] + SumOver(f, Image(T) \ {ids[x]})
      <4>1. \A m \in Image(T) : f[m] \in Int
        BY <1>5, <3>6
      <4> QED
        BY <3>5, <3>6, <4>1, SumOfOthers
    <3>8. f[ids[x]] \in Int /\ g[T \ {x}] \in Int
      BY <1>3, <1>5, <1>8, <3>2
    <3>9. g[T] = SumOver(f, Image(T))
      BY <3>2, <3>4, <3>7, <3>8
    <3> QED
      BY <1>8, <3>9
  <2> QED
    BY <2>1, <2>2
<1>10. D \in Good
  <2>1. IsFiniteSet(D)
    BY <1>8, FS_Interval
  <2>2. SUBSET D \subseteq Good
    <3> HIDE DEF Good
    <3> QED
      BY <1>9, <2>1, SubsetInduction
  <2> QED
    BY <2>2
<1>11. Image(1..n) = ToSet(ids)
  BY <1>1 DEF ToSet
<1>12. g[1..n] = SumOver(f, ToSet(ids))
  BY <1>8, <1>10, <1>11
<1>13. ToSet(ids) \in SUBSET Options
  <2>1. Image(1..n) \in SUBSET Options
    BY <1>7
  <2> QED
    BY <1>11, <2>1
<1> QED
  BY <1>3, <1>4, <1>12, <1>13, CostIsSum

\* How many entries of a list without repetitions belong to a group.
LEMMA CountIsCardinality ==
  ASSUME NEW ids, IsInjective(ids), NEW n \in Nat, DOMAIN ids = 1..n, NEW g
  PROVE  /\ CountIn(g, ids) = Cardinality(ToSet(ids) \cap OptionsOf(g))
         /\ CountIn(g, ids) \in Nat
<1> DEFINE P == {j \in DOMAIN ids : ids[j] \in OptionsOf(g)}
           C == ToSet(ids) \cap OptionsOf(g)
<1>1. IsFiniteSet(P)
  <2>1. IsFiniteSet(1..n)
    BY FS_Interval
  <2> QED
    BY <2>1, FS_Subset
<1>2. PICK b : b = [j \in P |-> ids[j]]
  OBVIOUS
<1>3. b \in Bijection(P, C)
  <2>1. b \in [P -> C]
    BY <1>2 DEF ToSet
  <2>2. \A j, k \in P : b[j] = b[k] => j = k
    BY <1>2 DEF IsInjective
  <2>3. \A m \in C : \E j \in P : b[j] = m
    BY <1>2 DEF ToSet
  <2> HIDE DEF P, C
  <2> QED
    BY <2>1, <2>2, <2>3 DEF Bijection, Injection, Surjection, IsInjective
<1> HIDE DEF P, C
<1>4. Cardinality(C) = Cardinality(P) /\ Cardinality(P) \in Nat
  BY <1>1, <1>3, FS_Bijection, FS_CardinalityType DEF ExistsBijection
<1> QED
  BY <1>4 DEF CountIn, P, C

-----------------------------------------------------------------------------
\* A line request that the menu did not overtake still fits the menu.

\* What an order line may hold: the property LineRespectsMenu of one line.
LineFits(d, chosen, delta) ==
  /\ dishes[d].available
  /\ chosen \subseteq UNION {AvailableIn(g) : g \in GroupsOf(d)}
  /\ delta = CostOf(chosen)
  /\ \A g \in GroupsOf(d) :
       \/ ~groups[g].required /\ chosen \cap OptionsOf(g) = {}
       \/ /\ chosen \cap OptionsOf(g) # {}
          /\ Cardinality(chosen \cap OptionsOf(g)) \in groups[g].min..groups[g].max

FitsMenu(call) ==
  ~call.overtaken =>
    /\ call.at \in {"resolve", "insertLine"} =>
         call.dish \in LiveDishes /\ dishes[call.dish].available
    /\ call.at = "insertLine" => LineFits(call.dish, call.chosen, call.delta)

CallTyped(call) ==
  /\ call.at \in {"idle", "deleteDish", "updateGroup", "resolve", "insertLine"}
  /\ call.chosen \in SUBSET Options /\ call.delta \in Int
  /\ call.overtaken \in BOOLEAN
  /\ call.at = "updateGroup" => call.max # 0

RowsTyped ==
  /\ OptionsTyped
  /\ \A g \in Groups : groups[g].max # 0
  /\ \A n \in DOMAIN menuLines : menuLines[n].delta \in Int
  /\ unchecked \subseteq LiveGroups

CallsTyped == \A c \in MenuCalls : CallTyped(menuCalls[c])

CallsFitMenu == \A c \in MenuCalls : FitsMenu(menuCalls[c])

MenuInv == IInv /\ RowsTyped /\ CallsTyped /\ CallsFitMenu

\* The empty slot is typed and fits every menu.
LEMMA NoCallFits == CallTyped(NoMenuCall) /\ FitsMenu(NoMenuCall)
  BY DEF CallTyped, FitsMenu, NoMenuCall

\* The second half of the invariant holds with an empty menu.
LEMMA InitMenuInv == MenuInit => MenuInv
<1> SUFFICES ASSUME MenuInit PROVE MenuInv
  OBVIOUS
<1>1. IInv
  BY InitIInv
<1>2. RowsTyped
  <2>1. OptionsTyped
    BY DEF MenuInit, OptionsTyped, OptionRecords, NoOption
  <2>2. DOMAIN menuLines = {}
    BY DEF MenuInit
  <2> QED
    BY <2>1, <2>2 DEF MenuInit, RowsTyped, NoGroup
<1>3. CallsTyped /\ CallsFitMenu
  BY NoCallFits DEF MenuInit, CallsTyped, CallsFitMenu
<1> QED
  BY <1>1, <1>2, <1>3 DEF MenuInv

\* A change of the menu overtakes every line request in flight.
LEMMA MenuChangedOvertakes ==
  ASSUME MenuInv, NEW over, MenuChanged(over)
  PROVE  CallsTyped' /\ CallsFitMenu'
<1>1. ASSUME NEW c \in MenuCalls
      PROVE  /\ CallTyped(menuCalls'[c])
             /\ menuCalls'[c].at \in {"resolve", "insertLine"} => menuCalls'[c].overtaken
  <2>1. CASE c \in over
    <3>1. menuCalls'[c] = NoMenuCall
      BY <2>1 DEF MenuChanged
    <3> QED
      BY <3>1, NoCallFits, NoCall
  <2>2. CASE c \notin over
    <3>1. PICK o : /\ o = (menuCalls[c].overtaken \/ menuCalls[c].at \in {"resolve", "insertLine"})
                   /\ menuCalls'[c] = [menuCalls[c] EXCEPT !.overtaken = o]
      <4>1. IsCall(menuCalls[c])
        BY DEF MenuInv, IInv, MenuShapes, CallsShape
      <4>2. menuCalls'[c] = [menuCalls[c] EXCEPT !.overtaken =
               @ \/ menuCalls[c].at \in {"resolve", "insertLine"}]
        BY <2>2 DEF MenuChanged
      <4> QED
        BY <4>1, <4>2
    <3>2. IsCall(menuCalls[c])
      BY DEF MenuInv, IInv, MenuShapes, CallsShape
    <3>3. menuCalls'[c] = [at |-> menuCalls[c].at, dish |-> menuCalls[c].dish,
                   chosen |-> menuCalls[c].chosen, delta |-> menuCalls[c].delta,
                   group |-> menuCalls[c].group, min |-> menuCalls[c].min,
                   max |-> menuCalls[c].max, read |-> menuCalls[c].read, overtaken |-> o]
      BY <3>1, <3>2 DEF IsCall
    <3>4. CallTyped(menuCalls[c])
      BY DEF MenuInv, CallsTyped
    <3>5. o \in BOOLEAN
      BY <3>1, <3>4 DEF CallTyped
    <3> QED
      BY <3>1, <3>3, <3>4, <3>5 DEF CallTyped
  <2> QED
    BY <2>1, <2>2
<1>2. CallsTyped'
  BY <1>1 DEF CallsTyped, CallTyped
<1>3. CallsFitMenu'
  BY <1>1 DEF CallsFitMenu, FitsMenu
<1> QED
  BY <1>2, <1>3

\* A line of a dish still fits when the dish and all groups and options are as before.
LEMMA SameMenu ==
  ASSUME UNCHANGED <<groups, options>>, NEW d, dishes'[d] = dishes[d],
         NEW chosen, NEW delta, LineFits(d, chosen, delta)
  PROVE  LineFits(d, chosen, delta)'
<1>1. CostOf(chosen)' = CostOf(chosen)
  BY DEF CostOf, MapThenSumSet, MapThenFoldSet
<1>2. /\ \A g : OptionsOf(g)' = OptionsOf(g)
      /\ \A g : AvailableIn(g)' = AvailableIn(g)
      /\ GroupsOf(d)' = GroupsOf(d)
  BY DEF OptionsOf, AvailableIn, GroupsOf
<1>3. UNION {AvailableIn(g) : g \in GroupsOf(d)}' = UNION {AvailableIn(g) : g \in GroupsOf(d)}
  BY <1>2
<1> QED
  BY <1>1, <1>2, <1>3 DEF LineFits

\* And so does every request that fitted, when no live dish changed.
LEMMA StillFits ==
  ASSUME UNCHANGED <<groups, options>>, \A d \in LiveDishes : dishes'[d] = dishes[d],
         NEW call, FitsMenu(call)
  PROVE  FitsMenu(call)'
<1> SUFFICES ASSUME ~call.overtaken
             PROVE  /\ call.at \in {"resolve", "insertLine"} =>
                         call.dish \in LiveDishes' /\ dishes'[call.dish].available
                    /\ call.at = "insertLine" => LineFits(call.dish, call.chosen, call.delta)'
  BY DEF FitsMenu
<1>1. \A d \in LiveDishes : d \in LiveDishes'
  BY DEF LiveDishes
<1>2. call.at \in {"resolve", "insertLine"} =>
        call.dish \in LiveDishes' /\ dishes'[call.dish].available
  BY <1>1 DEF FitsMenu
<1>3. ASSUME call.at = "insertLine" PROVE LineFits(call.dish, call.chosen, call.delta)'
  <2>1. PICK d, chosen, delta : d = call.dish /\ chosen = call.chosen /\ delta = call.delta
    OBVIOUS
  <2>2. dishes'[d] = dishes[d] /\ LineFits(d, chosen, delta)
    BY <1>3, <2>1 DEF FitsMenu
  <2>3. LineFits(d, chosen, delta)'
    BY <2>2, SameMenu
  <2> QED
    BY <2>1, <2>3
<1> QED
  BY <1>2, <1>3

\* A request moves on while the menu stays as it is.
LEMMA CallMovesFits ==
  ASSUME MenuInv, UNCHANGED <<dishes, groups, options>>,
         NEW c \in MenuCalls, NEW call, CallTyped(call), FitsMenu(call),
         menuCalls' = [menuCalls EXCEPT ![c] = call]
  PROVE  CallsTyped' /\ CallsFitMenu'
<1>1. \A d \in MenuCalls : menuCalls'[d] = IF d = c THEN call ELSE menuCalls[d]
  BY DEF MenuInv, IInv, MenuShapes, CallsShape
<1>2. ASSUME NEW d \in MenuCalls PROVE CallTyped(menuCalls'[d]) /\ FitsMenu(menuCalls[d])'
  <2>1. PICK k : k = menuCalls'[d]
    OBVIOUS
  <2>2. CallTyped(k) /\ FitsMenu(k)
    BY <1>1, <2>1 DEF MenuInv, CallsTyped, CallsFitMenu
  <2>3. FitsMenu(k)'
    BY <2>2, StillFits
  <2> QED
    BY <2>1, <2>2, <2>3
<1> QED
  BY <1>2 DEF CallsTyped, CallsFitMenu, CallTyped

\* No request moves, and no live dish changes.
LEMMA CallsStayFits ==
  ASSUME MenuInv, UNCHANGED <<groups, options, menuCalls>>,
         \A d \in LiveDishes : dishes'[d] = dishes[d]
  PROVE  CallsTyped' /\ CallsFitMenu'
<1>1. ASSUME NEW d \in MenuCalls PROVE CallTyped(menuCalls'[d]) /\ FitsMenu(menuCalls[d])'
  <2>1. PICK k : k = menuCalls[d] /\ k = menuCalls'[d]
    OBVIOUS
  <2>2. CallTyped(k) /\ FitsMenu(k)
    BY <2>1 DEF MenuInv, CallsTyped, CallsFitMenu
  <2>3. FitsMenu(k)'
    BY <2>2, StillFits
  <2> QED
    BY <2>1, <2>2, <2>3
<1> QED
  BY <1>1 DEF CallsTyped, CallsFitMenu, CallTyped

\* A step that leaves the groups, the options and the lines alone.
LEMMA RowsStayTyped ==
  ASSUME MenuInv, UNCHANGED <<groups, options, menuLines, unchecked>>
  PROVE  RowsTyped'
<1>1. LiveGroups' = LiveGroups
  BY DEF LiveGroups, GroupsOf
<1> QED
  BY <1>1 DEF MenuInv, RowsTyped, OptionsTyped

\* Only what a request remembers changes.
LEMMA OnlyCallsMoveFits ==
  ASSUME MenuInv, UNCHANGED <<categories, dishes, groups, options, menuLines, unchecked>>,
         NEW c \in MenuCalls, NEW call, IsCall(call), CallTyped(call), FitsMenu(call),
         menuCalls' = [menuCalls EXCEPT ![c] = call]
  PROVE  RowsTyped' /\ CallsTyped' /\ CallsFitMenu'
BY CallMovesFits, RowsStayTyped

-----------------------------------------------------------------------------
\* The steps of the line requests.

\* The dish is read.
LEMMA RequestLineFits ==
  ASSUME MenuInv, NEW c \in MenuCalls, NEW d \in Dishes, RequestLine(c, d)
  PROVE  RowsTyped' /\ CallsTyped' /\ CallsFitMenu'
<1>1. PICK call : call = [NoMenuCall EXCEPT !.at = "resolve", !.dish = d]
  OBVIOUS
<1>2. /\ call.at = "resolve" /\ call.dish = d /\ call.chosen = {} /\ call.delta = 0
      /\ call.overtaken = FALSE /\ IsCall(call)
  BY <1>1, NoCall DEF NoMenuCall, IsCall
<1>3. CallTyped(call)
  <2>1. call.overtaken \in BOOLEAN
    BY <1>2
  <2>2. call.chosen \in SUBSET Options /\ call.delta \in Int
    BY <1>2
  <2>3. call.at \in {"idle", "deleteDish", "updateGroup", "resolve", "insertLine"}
    BY <1>2
  <2>4. call.at # "updateGroup"
    BY <1>2
  <2> QED
    BY <2>1, <2>2, <2>3, <2>4 DEF CallTyped
<1>5. FitsMenu(call)
  <2>1. d \in LiveDishes /\ dishes[d].available
    BY DEF RequestLine
  <2>2. call.at # "insertLine"
    BY <1>2
  <2> QED
    BY <1>2, <2>1, <2>2 DEF FitsMenu
<1>4. menuCalls' = [menuCalls EXCEPT ![c] = call]
  BY <1>1 DEF RequestLine
<1> QED
  BY <1>2, <1>3, <1>5, <1>4, OnlyCallsMoveFits DEF RequestLine

\* A list that resolveSelections() accepts fits the menu it was read from.
LEMMA ResolvedFits ==
  ASSUME MenuInv, NEW d \in LiveDishes, dishes[d].available, NEW ids \in Selections, Resolves(d, ids)
  PROVE  LineFits(d, ToSet(ids), deltaCentsPerUnit(ids)) /\ ToSet(ids) \in SUBSET Options
<1>1. OptionsTyped /\ ids \in Seq(Options) /\ IsInjective(ids)
  BY MenuAssumption DEF MenuInv, RowsTyped, MenuAssumption, Resolves
<1>2. PICK n \in Nat : DOMAIN ids = 1..n
  BY <1>1, LenProperties
<1>3. ToSet(ids) \in SUBSET Options
  BY <1>1, <1>2, ElementOfSeq, LenProperties DEF ToSet
<1>4. deltaCentsPerUnit(ids) = CostOf(ToSet(ids))
  BY <1>1, DeltaIsCost
<1>5. ToSet(ids) \subseteq UNION {AvailableIn(g) : g \in GroupsOf(d)}
  BY DEF Resolves, ToSet, AvailableIn
<1>6. ASSUME NEW g \in GroupsOf(d)
      PROVE  \/ ~groups[g].required /\ ToSet(ids) \cap OptionsOf(g) = {}
             \/ /\ ToSet(ids) \cap OptionsOf(g) # {}
                /\ Cardinality(ToSet(ids) \cap OptionsOf(g)) \in groups[g].min..groups[g].max
  <2>1. PICK k : k = CountIn(g, ids)
    OBVIOUS
  <2>2. k = Cardinality(ToSet(ids) \cap OptionsOf(g)) /\ k \in Nat
    BY <1>1, <1>2, <2>1, CountIsCardinality
  <2>3. groups[g].min \in Nat /\ groups[g].max \in Nat
    BY DEF MenuInv, IInv, MenuShapes, GroupsOf
  <2>4. /\ groups[g].required => k # 0
        /\ k > 0 => k >= effectiveMin(g)
        /\ k <= groups[g].max
    BY <2>1 DEF Resolves, GroupAccepts
  <2>5. effectiveMin(g) \in Nat /\ effectiveMin(g) >= groups[g].min
    BY <2>3 DEF effectiveMin
  <2>6. k = 0 => ToSet(ids) \cap OptionsOf(g) = {}
    <3>1. IsFiniteSet(ToSet(ids) \cap OptionsOf(g))
      BY <1>3, FS_Subset, MenuAssumption DEF MenuAssumption
    <3> QED
      BY <2>2, <3>1, FS_EmptySet
  <2>7. k # 0 => ToSet(ids) \cap OptionsOf(g) # {}
    BY <2>2, FS_EmptySet
  <2>8. k # 0 => k \in groups[g].min..groups[g].max
    BY <2>2, <2>3, <2>4, <2>5
  <2> QED
    BY <2>2, <2>4, <2>6, <2>7, <2>8
<1> QED
  BY <1>3, <1>4, <1>5, <1>6 DEF LineFits

\* The groups and options are read, and what the line costs is added up.
LEMMA ResolveLineFits ==
  ASSUME MenuInv, NEW c \in MenuCalls, NEW ids \in Selections, ResolveLine(c, ids)
  PROVE  RowsTyped' /\ CallsTyped' /\ CallsFitMenu'
<1>1. PICK old : old = menuCalls[c]
  OBVIOUS
<1>2. IsCall(old) /\ CallTyped(old) /\ FitsMenu(old) /\ old.at = "resolve" /\ Resolves(old.dish, ids)
  BY <1>1 DEF MenuInv, IInv, MenuShapes, CallsShape, CallsTyped, CallsFitMenu, ResolveLine
<1>3. PICK chosen, delta : chosen = ToSet(ids) /\ delta = deltaCentsPerUnit(ids)
  OBVIOUS
<1>4. PICK call : call = [old EXCEPT !.at = "insertLine", !.chosen = chosen, !.delta = delta]
  OBVIOUS
<1>5. menuCalls' = [menuCalls EXCEPT ![c] = call]
  <2>1. menuCalls' = [menuCalls EXCEPT ![c].at = "insertLine", ![c].chosen = chosen,
                                       ![c].delta = delta]
    BY <1>3 DEF ResolveLine
  <2>2. menuCalls = [k \in MenuCalls |-> menuCalls[k]]
    BY DEF MenuInv, IInv, MenuShapes, CallsShape
  <2> QED
    BY <1>1, <1>4, <2>1, <2>2
<1>6. call = [at |-> "insertLine", dish |-> old.dish, chosen |-> chosen,
              delta |-> delta, group |-> old.group, min |-> old.min, max |-> old.max,
              read |-> old.read, overtaken |-> old.overtaken]
  BY <1>2, <1>4 DEF IsCall
<1>7. IsCall(call)
  BY <1>6 DEF IsCall
<1>8. chosen \in SUBSET Options /\ delta \in Int
  <2>1. ids \in Seq(Options)
    BY MenuAssumption DEF MenuAssumption
  <2>2. OptionsTyped
    BY DEF MenuInv, RowsTyped
  <2>3. delta \in Int
    BY <1>3, <2>1, <2>2, DeltaType
  <2>4. chosen \in SUBSET Options
    BY <1>3, <2>1, ElementOfSeq, LenProperties DEF ToSet
  <2> QED
    BY <2>3, <2>4
<1>9. CallTyped(call)
  BY <1>2, <1>6, <1>8 DEF CallTyped
<1>10. FitsMenu(call)
  <2>1. ASSUME ~old.overtaken
        PROVE  /\ old.dish \in LiveDishes /\ dishes[old.dish].available
               /\ LineFits(old.dish, chosen, delta)
    <3>1. old.dish \in LiveDishes /\ dishes[old.dish].available
      BY <1>2, <2>1 DEF FitsMenu
    <3> QED
      BY <1>2, <1>3, <3>1, ResolvedFits
  <2> QED
    BY <1>6, <2>1 DEF FitsMenu
<1> QED
  BY <1>5, <1>7, <1>9, <1>10, OnlyCallsMoveFits DEF ResolveLine

\* The line is written: what it costs was a sum of prices.
LEMMA InsertLineFits ==
  ASSUME MenuInv, NEW c \in MenuCalls, InsertLine(c)
  PROVE  RowsTyped' /\ CallsTyped' /\ CallsFitMenu'
<1>1. CallsTyped' /\ CallsFitMenu'
  BY NoCallFits, CallMovesFits DEF InsertLine
<1>2. PICK line : /\ line.delta = menuCalls[c].delta
                  /\ menuLines' = Append(menuLines, line)
  BY DEF InsertLine
<1>3. menuCalls[c].delta \in Int
  BY DEF MenuInv, CallsTyped, CallTyped
<1>4. \A n \in DOMAIN menuLines' : menuLines'[n].delta \in Int
  <2>1. PICK S : menuLines \in Seq(S)
    BY DEF MenuInv, IInv, MenuShapes
  <2>2. \A n \in DOMAIN menuLines' :
          menuLines'[n] = line \/ (n \in DOMAIN menuLines /\ menuLines'[n] = menuLines[n])
    BY <1>2, <2>1
  <2> QED
    BY <1>2, <1>3, <2>2 DEF MenuInv, RowsTyped
<1>5. LiveGroups' = LiveGroups /\ UNCHANGED <<groups, options, unchecked>>
  BY DEF InsertLine, LiveGroups, GroupsOf
<1>6. RowsTyped'
  BY <1>4, <1>5 DEF MenuInv, RowsTyped, OptionsTyped
<1> QED
  BY <1>1, <1>6

-----------------------------------------------------------------------------
\* The other steps.

\* A request that reads or ends, and writes nothing.
LEMMA OtherRequestsFit ==
  ASSUME MenuInv, NEW c \in MenuCalls,
         \/ \E d \in Dishes : RequestDishRemoval(c, d)
         \/ \E g \in Groups, min \in MinSelects \cup {Unsent}, max \in MaxSelects \cup {Unsent} :
              RequestGroupUpdate(c, g, min, max)
         \/ AbandonMenuCall(c)
  PROVE  RowsTyped' /\ CallsTyped' /\ CallsFitMenu'
<1>1. ASSUME NEW d \in Dishes, RequestDishRemoval(c, d)
      PROVE  RowsTyped' /\ CallsTyped' /\ CallsFitMenu'
  <2>1. PICK call : call = [NoMenuCall EXCEPT !.at = "deleteDish", !.dish = d]
    OBVIOUS
  <2>2. /\ call.at = "deleteDish" /\ call.chosen = {} /\ call.delta = 0
        /\ call.overtaken = FALSE /\ IsCall(call)
    BY <2>1, NoCall DEF NoMenuCall, IsCall
  <2>3. call.overtaken \in BOOLEAN
    BY <2>2
  <2>4. CallTyped(call) /\ FitsMenu(call)
    BY <2>2, <2>3 DEF CallTyped, FitsMenu
  <2>5. menuCalls' = [menuCalls EXCEPT ![c] = call]
    BY <1>1, <2>1 DEF RequestDishRemoval
  <2> QED
    BY <1>1, <2>2, <2>4, <2>5, OnlyCallsMoveFits DEF RequestDishRemoval
<1>2. ASSUME NEW g \in Groups, NEW min \in MinSelects \cup {Unsent},
             NEW max \in MaxSelects \cup {Unsent}, RequestGroupUpdate(c, g, min, max)
      PROVE  RowsTyped' /\ CallsTyped' /\ CallsFitMenu'
  <2>1. PICK read : read = IF Unsent \in {min, max} THEN GroupRange(g) ELSE Null
    OBVIOUS
  <2>2. PICK call : call = [NoMenuCall EXCEPT !.at = "updateGroup", !.group = g, !.min = min,
                                              !.max = max, !.read = read]
    OBVIOUS
  <2>3. /\ call.at = "updateGroup" /\ call.chosen = {} /\ call.delta = 0 /\ call.max = max
        /\ call.overtaken = FALSE /\ IsCall(call)
    BY <2>2, NoCall DEF NoMenuCall, IsCall
  <2>4. max # 0
    BY MenuAssumption DEF MenuAssumption
  <2>5. call.overtaken \in BOOLEAN
    BY <2>3
  <2>6. CallTyped(call) /\ FitsMenu(call)
    BY <2>3, <2>4, <2>5 DEF CallTyped, FitsMenu
  <2>7. menuCalls' = [menuCalls EXCEPT ![c] = call]
    BY <1>2, <2>1, <2>2 DEF RequestGroupUpdate
  <2> QED
    BY <1>2, <2>3, <2>6, <2>7, OnlyCallsMoveFits DEF RequestGroupUpdate
<1>3. CASE AbandonMenuCall(c)
  BY <1>3, NoCall, NoCallFits, OnlyCallsMoveFits DEF AbandonMenuCall
<1> QED
  BY <1>1, <1>2, <1>3

\* Edits of categories and dishes.  A dish that becomes live was none before.
LEMMA DishEditsFit ==
  ASSUME MenuInv, EditDishes
  PROVE  RowsTyped' /\ CallsTyped' /\ CallsFitMenu'
<1>1. ASSUME NEW k \in Categories, CreateCategory(k) \/ RemoveCategory(k)
      PROVE  RowsTyped' /\ CallsTyped' /\ CallsFitMenu'
  BY <1>1, RowsStayTyped, CallsStayFits DEF CreateCategory, RemoveCategory
<1>2. ASSUME NEW d \in Dishes, NEW k \in Categories, NEW available \in Flags,
             CreateDish(d, k, available)
      PROVE  RowsTyped' /\ CallsTyped' /\ CallsFitMenu'
  <2>1. \A e \in LiveDishes : dishes'[e] = dishes[e]
    <3>1. d \notin LiveDishes
      BY <1>2 DEF CreateDish, LiveDishes
    <3> QED
      BY <1>2, <3>1 DEF CreateDish, LiveDishes, MenuInv, IInv, MenuShapes
  <2> QED
    BY <1>2, <2>1, RowsStayTyped, CallsStayFits DEF CreateDish
<1>3. ASSUME NEW d \in Dishes, NEW k \in Categories, NEW available \in BOOLEAN,
             UpdateDish(d, k, available)
      PROVE  RowsTyped' /\ CallsTyped' /\ CallsFitMenu'
  BY <1>3, RowsStayTyped, MenuChangedOvertakes DEF UpdateDish
<1> QED
  BY <1>1, <1>2, <1>3 DEF EditDishes

\* An option row that is written has its columns' types.
LEMMA OptionRowsTyped ==
  /\ NoOption("gone") \in OptionRecords
  /\ \A g \in Groups, available \in Flags, delta \in OptionDeltas :
       [state |-> "live", group |-> g, available |-> Sent(available, TRUE), delta |-> delta]
         \in OptionRecords
<1>1. NoOption("gone") \in OptionRecords
  BY DEF NoOption, OptionRecords
<1>2. ASSUME NEW g \in Groups, NEW available \in Flags, NEW delta \in OptionDeltas
      PROVE  [state |-> "live", group |-> g, available |-> Sent(available, TRUE), delta |-> delta]
               \in OptionRecords
  <2>1. PICK a : a = Sent(available, TRUE)
    OBVIOUS
  <2>2. a \in BOOLEAN
    BY <2>1, SentProperties, MenuAssumption DEF MenuAssumption
  <2>3. delta \in Int
    BY MenuAssumption DEF MenuAssumption
  <2>4. [state |-> "live", group |-> g, available |-> a, delta |-> delta] \in OptionRecords
    BY <2>2, <2>3 DEF OptionRecords
  <2> QED
    BY <2>1, <2>4
<1> QED
  BY <1>1, <1>2

\* Rows stay typed when options are written, and every group that is marked as
\* unchecked is live.
LEMMA RowsChange ==
  ASSUME MenuInv, UNCHANGED menuLines, OptionsTyped',
         \A g \in Groups : groups'[g].max # 0,
         \A g \in unchecked' : \/ g \in LiveGroups'
                               \/ g \in unchecked /\ groups'[g].state = groups[g].state
                                    /\ groups'[g].dish = groups[g].dish
  PROVE  RowsTyped'
<1>1. unchecked' \subseteq LiveGroups'
  <2> SUFFICES ASSUME NEW g \in unchecked' PROVE g \in LiveGroups'
    OBVIOUS
  <2>1. CASE g \in unchecked /\ groups'[g].state = groups[g].state /\ groups'[g].dish = groups[g].dish
    <3>1. g \in LiveGroups
      BY <2>1 DEF MenuInv, RowsTyped
    <3> QED
      BY <2>1, <3>1, LiveGroup, LiveGroupNext
  <2> QED
    BY <2>1
<1> QED
  BY <1>1 DEF MenuInv, RowsTyped, OptionsTyped

\* A dish goes with its groups and their options.
LEMMA DishRemovalFits ==
  ASSUME MenuInv, NEW c \in MenuCalls, DeleteDish(c)
  PROVE  RowsTyped' /\ CallsTyped' /\ CallsFitMenu'
<1>1. PICK d : d = menuCalls[c].dish
  OBVIOUS
<1>2. DishGone(d) /\ MenuChanged({c})
  BY <1>1 DEF DeleteDish
<1>3. OptionsTyped'
  BY <1>2, OptionRowsTyped DEF DishGone, MenuInv, RowsTyped, OptionsTyped
<1>4. \A g \in Groups : groups'[g].max # 0
  BY <1>2 DEF DishGone, NoGroup, MenuInv, RowsTyped
<1>5. \A g \in unchecked' : g \in unchecked /\ groups'[g] = groups[g]
  BY <1>2, LiveGroup DEF DishGone, MenuInv, RowsTyped
<1> QED
  BY <1>2, <1>3, <1>4, <1>5, RowsChange, MenuChangedOvertakes DEF DishGone

\* A group is updated: the bound that was read stays, the one sent is not 0.
LEMMA GroupUpdateFits ==
  ASSUME MenuInv, NEW c \in MenuCalls, NEW required \in Flags, UpdateGroup(c, required)
  PROVE  RowsTyped' /\ CallsTyped' /\ CallsFitMenu'
<1>1. PICK g : g = menuCalls[c].group
  OBVIOUS
<1>2. PICK max : max = menuCalls[c].max
  OBVIOUS
<1>3. /\ g \in LiveGroups /\ g \in Groups /\ MenuChanged({c}) /\ UNCHANGED <<options, menuLines>>
      /\ groups' = [groups EXCEPT ![g].required = Sent(required, @),
                                  ![g].min = Sent(menuCalls[c].min, @), ![g].max = Sent(max, @)]
      /\ unchecked' \subseteq unchecked \cup {g}
  BY <1>1, <1>2, LiveGroup DEF UpdateGroup
<1>4. max # 0
  BY <1>2 DEF UpdateGroup, MenuInv, CallsTyped, CallTyped
<1>5. \A x \in Groups : /\ groups'[x].state = groups[x].state /\ groups'[x].dish = groups[x].dish
                        /\ groups'[x].max = IF x = g THEN Sent(max, groups[x].max) ELSE groups[x].max
  BY <1>3 DEF MenuInv, IInv, MenuShapes
<1>6. \A x \in Groups : groups'[x].max # 0
  BY <1>4, <1>5, SentProperties DEF MenuInv, RowsTyped
<1>7. g \in LiveGroups'
  BY <1>3, <1>5, LiveGroup, LiveGroupNext
<1>8. \A x \in unchecked' : \/ x \in LiveGroups'
                            \/ x \in unchecked /\ groups'[x].state = groups[x].state
                                 /\ groups'[x].dish = groups[x].dish
  BY <1>3, <1>5, <1>7, LiveGroup DEF MenuInv, RowsTyped
<1>9. OptionsTyped'
  BY <1>3 DEF MenuInv, RowsTyped, OptionsTyped
<1> QED
  BY <1>3, <1>6, <1>8, <1>9, RowsChange, MenuChangedOvertakes

\* Edits of groups and options.
LEMMA GroupEditsFit ==
  ASSUME MenuInv, EditGroups
  PROVE  RowsTyped' /\ CallsTyped' /\ CallsFitMenu'
<1>1. ASSUME NEW g \in Groups, NEW d \in Dishes, NEW required \in Flags,
             NEW min \in MinSelects \cup {Unsent}, NEW max \in MaxSelects \cup {Unsent},
             NEW first \in SUBSET Options, NEW available \in Flags, NEW delta \in OptionDeltas,
             CreateGroup(g, d, required, min, max, first, available, delta)
      PROVE  RowsTyped' /\ CallsTyped' /\ CallsFitMenu'
  <2>1. PICK row : row = [state |-> "live", group |-> g, available |-> Sent(available, TRUE),
                          delta |-> delta]
    OBVIOUS
  <2>2. row \in OptionRecords
    BY <2>1, OptionRowsTyped
  <2>3. options' = [m \in Options |-> IF m \notin first THEN options[m] ELSE row]
    BY <1>1, <2>1 DEF CreateGroup
  <2>4. OptionsTyped'
    BY <2>2, <2>3 DEF MenuInv, RowsTyped, OptionsTyped
  <2>5. PICK most : most = Sent(max, 1)
    OBVIOUS
  <2>6. most # 0
    BY <2>5, SentProperties, MenuAssumption DEF MenuAssumption
  <2>7. PICK group : /\ group.max = most /\ group.state = "live" /\ group.dish = d
                     /\ groups' = [groups EXCEPT ![g] = group]
    BY <1>1, <2>5 DEF CreateGroup
  <2>8. \A x \in Groups : groups'[x] = IF x = g THEN group ELSE groups[x]
    BY <2>7 DEF MenuInv, IInv, MenuShapes
  <2>9. \A x \in Groups : groups'[x].max # 0
    BY <2>6, <2>7, <2>8 DEF MenuInv, RowsTyped
  <2>10. g \in LiveGroups' /\ unchecked' \subseteq unchecked \cup {g}
    BY <1>1, <2>7, <2>8, LiveGroupNext DEF CreateGroup
  <2>11. \A x \in unchecked' : \/ x \in LiveGroups'
                               \/ x \in unchecked /\ groups'[x].state = groups[x].state
                                    /\ groups'[x].dish = groups[x].dish
    BY <2>8, <2>10, LiveGroup DEF MenuInv, RowsTyped
  <2>12. UNCHANGED menuLines /\ MenuChanged({})
    BY <1>1 DEF CreateGroup
  <2> QED
    BY <2>4, <2>9, <2>11, <2>12, RowsChange, MenuChangedOvertakes
<1>2. ASSUME NEW g \in Groups, RemoveGroup(g)
      PROVE  RowsTyped' /\ CallsTyped' /\ CallsFitMenu'
  <2>1. OptionsTyped'
    BY <1>2, OptionRowsTyped DEF RemoveGroup, MenuInv, RowsTyped, OptionsTyped
  <2>2. \A x \in Groups : groups'[x] = IF x = g THEN NoGroup("gone") ELSE groups[x]
    BY <1>2 DEF RemoveGroup, MenuInv, IInv, MenuShapes
  <2>3. \A x \in Groups : groups'[x].max # 0
    BY <2>2 DEF NoGroup, MenuInv, RowsTyped
  <2>4. \A x \in unchecked' : x \in unchecked /\ groups'[x] = groups[x]
    BY <1>2, <2>2, LiveGroup DEF RemoveGroup, MenuInv, RowsTyped
  <2> QED
    BY <1>2, <2>1, <2>3, <2>4, RowsChange, MenuChangedOvertakes DEF RemoveGroup
<1>3. ASSUME UNCHANGED <<groups, menuLines, unchecked>>, MenuChanged({}), OptionsTyped'
      PROVE  RowsTyped' /\ CallsTyped' /\ CallsFitMenu'
  BY <1>3, RowsChange, MenuChangedOvertakes DEF MenuInv, RowsTyped
<1>4. ASSUME NEW m \in Options, NEW g \in Groups, NEW available \in Flags,
             NEW delta \in OptionDeltas, AddOption(m, g, available, delta)
      PROVE  OptionsTyped'
  <2>1. PICK row : row = [state |-> "live", group |-> g, available |-> Sent(available, TRUE),
                          delta |-> delta]
    OBVIOUS
  <2>2. row \in OptionRecords /\ options' = [options EXCEPT ![m] = row]
    BY <1>4, <2>1, OptionRowsTyped DEF AddOption
  <2> QED
    BY <2>2 DEF MenuInv, RowsTyped, OptionsTyped
<1>5. ASSUME NEW m \in Options, NEW available \in BOOLEAN, NEW delta \in OptionDeltas,
             UpdateOption(m, available, delta)
      PROVE  OptionsTyped'
  <2>1. delta \in Int
    BY MenuAssumption DEF MenuAssumption
  <2>2. options' = [options EXCEPT ![m].available = available, ![m].delta = delta]
    BY <1>5 DEF UpdateOption
  <2> QED
    BY <2>1, <2>2 DEF MenuInv, RowsTyped, OptionsTyped, OptionRecords
<1>6. ASSUME NEW m \in Options, RemoveOption(m)
      PROVE  OptionsTyped'
  BY <1>6, OptionRowsTyped DEF RemoveOption, MenuInv, RowsTyped, OptionsTyped
<1> QED
  BY <1>1, <1>2, <1>3, <1>4, <1>5, <1>6 DEF EditGroups, AddOption, UpdateOption, RemoveOption

\* Every step preserves the second half too.
LEMMA NextKeepsMenuInv == MenuInv /\ [MenuNext]_menuVars => MenuInv'
<1> SUFFICES ASSUME MenuInv, [MenuNext]_menuVars PROVE MenuInv'
  OBVIOUS
<1>1. IInv'
  BY NextKeepsIInv DEF MenuInv
<1>2. ASSUME NEW c \in MenuCalls, MenuRequest(c)
      PROVE  RowsTyped' /\ CallsTyped' /\ CallsFitMenu'
  BY <1>2, DishRemovalFits, GroupUpdateFits, RequestLineFits, ResolveLineFits, InsertLineFits,
     OtherRequestsFit DEF MenuRequest
<1>3. ASSUME UNCHANGED menuVars PROVE RowsTyped' /\ CallsTyped' /\ CallsFitMenu'
  BY <1>3, RowsStayTyped, CallsStayFits DEF menuVars
<1>4. ASSUME EditDishes \/ EditGroups PROVE RowsTyped' /\ CallsTyped' /\ CallsFitMenu'
  BY <1>4, DishEditsFit, GroupEditsFit
<1>5. RowsTyped' /\ CallsTyped' /\ CallsFitMenu'
  <2>1. CASE UNCHANGED menuVars
    BY <1>3, <2>1
  <2>2. CASE MenuNext
    BY <1>2, <1>4, <2>2 DEF MenuNext
  <2> QED
    BY <2>1, <2>2
<1> QED
  BY <1>1, <1>5 DEF MenuInv

\* The whole invariant holds in every state of the menu's handlers.
THEOREM FullMenuInvariance == MenuSpec => []MenuInv
BY InitMenuInv, NextKeepsMenuInv, PTL DEF MenuSpec

\* The rows of the menu have their columns' types, and a group whose bounds were
\* never compared is one that exists.
THEOREM MenuTypeCorrect == MenuSpec => []MenuTypeOK
<1>1. MenuInv => MenuTypeOK
  <2> SUFFICES ASSUME MenuInv PROVE MenuTypeOK
    OBVIOUS
  <2>1. \A g \in Groups : groups[g].min \in Nat /\ groups[g].max \in Nat \ {0}
    BY DEF MenuInv, IInv, MenuShapes, RowsTyped
  <2>2. \A m \in Options : options[m].group \in Groups \cup {Null} /\ options[m].delta \in Int
    BY DEF MenuInv, RowsTyped, OptionsTyped, OptionRecords
  <2> QED
    BY <2>1, <2>2 DEF MenuInv, RowsTyped, CallsTyped, CallTyped, MenuTypeOK
<1> QED
  BY <1>1, FullMenuInvariance, PTL

\* Only a request whose line is written ends with a new line.
LEMMA LineStep ==
  ASSUME MenuInv, [MenuNext]_menuVars, menuLines' # menuLines
  PROVE  \E c \in MenuCalls : InsertLine(c)
<1>1. ASSUME EditDishes PROVE FALSE
  BY <1>1 DEF EditDishes, CreateCategory, RemoveCategory, CreateDish, UpdateDish
<1>2. ASSUME EditGroups PROVE FALSE
  <2>1. \A g, d, required, min, max, first, available, delta :
          CreateGroup(g, d, required, min, max, first, available, delta) => UNCHANGED menuLines
    BY DEF CreateGroup
  <2>2. \A g : RemoveGroup(g) => UNCHANGED menuLines
    BY DEF RemoveGroup
  <2>3. \A m, g, available, delta : AddOption(m, g, available, delta) => UNCHANGED menuLines
    BY DEF AddOption
  <2>4. \A m, available, delta : UpdateOption(m, available, delta) => UNCHANGED menuLines
    BY DEF UpdateOption
  <2>5. \A m : RemoveOption(m) => UNCHANGED menuLines
    BY DEF RemoveOption
  <2> QED
    BY <1>2, <2>1, <2>2, <2>3, <2>4, <2>5 DEF EditGroups
<1>3. ASSUME NEW c \in MenuCalls, MenuRequest(c) PROVE InsertLine(c)
  BY <1>3 DEF MenuRequest, RequestDishRemoval, DeleteDish, DishGone, RequestGroupUpdate,
     UpdateGroup, RequestLine, ResolveLine, AbandonMenuCall
<1> QED
  BY <1>1, <1>2, <1>3 DEF MenuNext, menuVars

\* The line that is written is the one the request remembers.
LEMMA WrittenLine ==
  ASSUME MenuInv, [MenuNext]_menuVars, menuLines' # menuLines, NEW c \in MenuCalls,
         menuCalls[c].at = "insertLine", menuCalls'[c] = NoMenuCall
  PROVE  menuLines'[Len(menuLines')] = [dish |-> menuCalls[c].dish, chosen |-> menuCalls[c].chosen,
                                        delta |-> menuCalls[c].delta]
<1>1. PICK k \in MenuCalls : InsertLine(k)
  BY LineStep
<1>2. k = c
  <2>1. menuCalls' = [menuCalls EXCEPT ![k] = NoMenuCall]
    BY <1>1 DEF InsertLine
  <2>2. menuCalls = [d \in MenuCalls |-> menuCalls[d]]
    BY DEF MenuInv, IInv, MenuShapes, CallsShape
  <2>3. menuCalls[c] # NoMenuCall
    BY NoCall
  <2> QED
    BY <2>1, <2>2, <2>3
<1>3. PICK line : /\ line = [dish |-> menuCalls[c].dish, chosen |-> menuCalls[c].chosen,
                             delta |-> menuCalls[c].delta]
                  /\ menuLines' = Append(menuLines, line)
  BY <1>1, <1>2 DEF InsertLine
<1>4. PICK S : menuLines \in Seq(S)
  BY DEF MenuInv, IInv, MenuShapes
<1> QED
  BY <1>3, <1>4

\* A line whose request no edit of the menu overtook keeps to the menu of its
\* time (OrdersService.addItem and create, with the checks of resolveSelections):
\* what was read before the write still holds when the line is written.
THEOREM LinesKeepToTheMenu == MenuSpec => LineRespectsMenu
<1>1. ASSUME MenuInv, [MenuNext]_menuVars
      PROVE  \A c \in MenuCalls :
               LET line == menuLines'[Len(menuLines')]
                   used(g) == line.chosen \cap OptionsOf(g)
               IN menuLines' # menuLines /\ menuCalls[c].at = "insertLine"
                    /\ menuCalls'[c] = NoMenuCall /\ ~menuCalls[c].overtaken =>
                  /\ dishes[line.dish].available
                  /\ line.chosen \subseteq UNION {AvailableIn(g) : g \in GroupsOf(line.dish)}
                  /\ line.delta = MapThenSumSet(LAMBDA m : options[m].delta, line.chosen)
                  /\ \A g \in GroupsOf(line.dish) :
                       \/ ~groups[g].required /\ used(g) = {}
                       \/ used(g) # {} /\ Cardinality(used(g)) \in groups[g].min..groups[g].max
  <2> SUFFICES ASSUME NEW c \in MenuCalls, menuLines' # menuLines,
                      menuCalls[c].at = "insertLine", menuCalls'[c] = NoMenuCall,
                      ~menuCalls[c].overtaken,
                      NEW line, line = menuLines'[Len(menuLines')]
               PROVE  /\ dishes[line.dish].available
                      /\ line.chosen \subseteq UNION {AvailableIn(g) : g \in GroupsOf(line.dish)}
                      /\ line.delta = MapThenSumSet(LAMBDA m : options[m].delta, line.chosen)
                      /\ \A g \in GroupsOf(line.dish) :
                           \/ ~groups[g].required /\ line.chosen \cap OptionsOf(g) = {}
                           \/ /\ line.chosen \cap OptionsOf(g) # {}
                              /\ Cardinality(line.chosen \cap OptionsOf(g))
                                   \in groups[g].min..groups[g].max
    OBVIOUS
  <2>1. line = [dish |-> menuCalls[c].dish, chosen |-> menuCalls[c].chosen,
                delta |-> menuCalls[c].delta]
    BY <1>1, WrittenLine
  <2>2. LineFits(menuCalls[c].dish, menuCalls[c].chosen, menuCalls[c].delta)
    BY <1>1 DEF MenuInv, CallsFitMenu, FitsMenu
  <2>3. LineFits(line.dish, line.chosen, line.delta)
    BY <2>1, <2>2
  <2> QED
    BY <2>3 DEF LineFits, CostOf
<1> QED
  BY <1>1, FullMenuInvariance, PTL DEF MenuSpec, LineRespectsMenu

-----------------------------------------------------------------------------
\* A dish with enough available options can be ordered.

\* A finite set has subsets of every smaller size.
LEMMA SubsetOfSize ==
  ASSUME NEW S, IsFiniteSet(S), NEW k \in Nat, k <= Cardinality(S)
  PROVE  \E T \in SUBSET S : Cardinality(T) = k
<1> DEFINE Good == {U \in SUBSET S : k <= Cardinality(U) => \E T \in SUBSET U : Cardinality(T) = k}
<1>1. ASSUME NEW T \in SUBSET S, \A U \in SUBSET T : U # T => U \in Good
      PROVE  T \in Good
  <2> SUFFICES ASSUME k <= Cardinality(T) PROVE \E U \in SUBSET T : Cardinality(U) = k
    OBVIOUS
  <2>1. IsFiniteSet(T) /\ Cardinality(T) \in Nat
    BY FS_Subset, FS_CardinalityType
  <2>2. CASE Cardinality(T) = k
    BY <2>2
  <2>3. CASE Cardinality(T) # k
    <3>1. k < Cardinality(T) /\ Cardinality(T) # 0
      BY <2>1, <2>3
    <3>2. PICK x : x \in T
      BY <2>1, <3>1, FS_EmptySet
    <3>3. Cardinality(T \ {x}) = Cardinality(T) - 1
      BY <2>1, <3>2, FS_RemoveElement
    <3>4. k <= Cardinality(T \ {x})
      BY <2>1, <3>1, <3>3
    <3>5. T \ {x} \in Good
      BY <1>1, <3>2
    <3> QED
      BY <3>4, <3>5
  <2> QED
    BY <2>2, <2>3
<1>2. SUBSET S \subseteq Good
  <2> HIDE DEF Good
  <2> QED
    BY <1>1, SubsetInduction
<1> QED
  BY <1>2

\* A finite set written as a list has its elements, none of them twice.
LEMMA ListOfSet ==
  ASSUME NEW S, IsFiniteSet(S)
  PROVE  /\ IsInjective(SetToSeq(S)) /\ ToSet(SetToSeq(S)) = S
         /\ \E n \in Nat : DOMAIN SetToSeq(S) = 1..n
<1>1. PICK n \in Nat : ExistsBijection(1..n, S)
  BY FS_NatBijection
<1>2. Cardinality(S) = n
  BY <1>1, FS_CountingElements
<1>3. PICK D : D = 1..n
  OBVIOUS
<1>4. \E f \in [D -> S] : IsInjective(f)
  BY <1>1, <1>3 DEF ExistsBijection, Bijection, Injection
<1>5. PICK ids : ids = SetToSeq(S)
  OBVIOUS
<1>6. ids \in [D -> S] /\ IsInjective(ids)
  BY <1>2, <1>3, <1>4, <1>5 DEF SetToSeq
<1>7. ids \in Surjection(D, S)
  <2>1. ids \in Injection(D, S)
    BY <1>6 DEF Injection
  <2>2. IsFiniteSet(D) /\ Cardinality(D) = n
    BY <1>3, FS_Interval
  <2>3. Cardinality(D) = Cardinality(S)
    BY <1>2, <2>2
  <2> QED
    BY <2>1, <2>3, FS_Injection
<1>8. ToSet(ids) = S
  BY <1>6, <1>7 DEF Surjection, ToSet
<1> QED
  BY <1>3, <1>5, <1>6, <1>8

\* A set of available options that has, of every group, none or a number in its
\* range, and of a required group some, is accepted.
LEMMA FittingSetResolves ==
  ASSUME NEW d \in Dishes, NEW chosen \in SUBSET Options,
         chosen \subseteq UNION {AvailableIn(g) : g \in GroupsOf(d)},
         NEW count, count = [g \in Groups |-> Cardinality(chosen \cap OptionsOf(g))],
         \A g \in GroupsOf(d) :
           /\ groups[g].required => count[g] # 0
           /\ count[g] > 0 => count[g] >= effectiveMin(g)
           /\ count[g] <= groups[g].max
  PROVE  Resolves(d, SetToSeq(chosen))
<1>1. PICK ids : ids = SetToSeq(chosen)
  OBVIOUS
<1>2. IsFiniteSet(chosen)
  BY FS_Subset, MenuAssumption DEF MenuAssumption
<1>3. IsInjective(ids) /\ ToSet(ids) = chosen /\ \E n \in Nat : DOMAIN ids = 1..n
  BY <1>1, <1>2, ListOfSet
<1>4. \A g \in GroupsOf(d) : CountIn(g, ids) = count[g]
  BY <1>3, CountIsCardinality DEF GroupsOf
<1>5. \A g \in GroupsOf(d) : GroupAccepts(g, ids)
  BY <1>4 DEF GroupAccepts
<1>6. \A n \in DOMAIN ids : /\ \E g \in GroupsOf(d) : ids[n] \in OptionsOf(g)
                            /\ options[ids[n]].available
  <2> SUFFICES ASSUME NEW n \in DOMAIN ids
               PROVE  /\ \E g \in GroupsOf(d) : ids[n] \in OptionsOf(g)
                      /\ options[ids[n]].available
    OBVIOUS
  <2>1. ids[n] \in chosen
    BY <1>3 DEF ToSet
  <2>2. PICK g \in GroupsOf(d) : ids[n] \in AvailableIn(g)
    BY <2>1
  <2> QED
    BY <2>2 DEF AvailableIn
<1> QED
  BY <1>1, <1>3, <1>5, <1>6 DEF Resolves

\* How many options of a group the choice below takes: the fewest it accepts of a
\* required group, of the others none.
Taken(g) == IF groups[g].required THEN effectiveMin(g) ELSE 0

\* Taking that many available options of each group is accepted, when they exist
\* and the ranges were compared.
LEMMA EnoughOptionsResolve ==
  ASSUME MenuInv, NEW d \in LiveDishes,
         \A g \in GroupsOf(d) : groups[g].required =>
           g \notin unchecked /\ Cardinality(AvailableIn(g)) >= effectiveMin(g)
  PROVE  \E chosen \in SUBSET UNION {AvailableIn(g) : g \in GroupsOf(d)} :
           Resolves(d, SetToSeq(chosen))
<1>1. \A g \in GroupsOf(d) : /\ g \in LiveGroups /\ g \in Groups
                             /\ groups[g].min \in Nat /\ groups[g].max \in Nat
                             /\ groups[g].max # 0 /\ groups[g].required \in BOOLEAN
  BY DEF MenuInv, IInv, MenuShapes, RowsTyped, GroupsOf, LiveGroups, LiveDishes
<1>2. \A g \in GroupsOf(d) : Taken(g) \in Nat /\ Taken(g) <= groups[g].max
  <2> SUFFICES ASSUME NEW g \in GroupsOf(d) PROVE Taken(g) \in Nat /\ Taken(g) <= groups[g].max
    OBVIOUS
  <2>1. groups[g].required => groups[g].min <= groups[g].max
    BY <1>1 DEF MenuInv, IInv, RangesCompared
  <2> QED
    BY <1>1, <2>1 DEF Taken, effectiveMin
<1>3. ASSUME NEW g \in GroupsOf(d) PROVE \E T \in SUBSET AvailableIn(g) : Cardinality(T) = Taken(g)
  <2>1. IsFiniteSet(AvailableIn(g)) /\ Cardinality(AvailableIn(g)) \in Nat
    <3>1. AvailableIn(g) \in SUBSET Options
      BY DEF AvailableIn, OptionsOf
    <3> QED
      BY <3>1, FS_Subset, FS_CardinalityType, MenuAssumption DEF MenuAssumption
  <2>2. Taken(g) <= Cardinality(AvailableIn(g)) /\ Taken(g) \in Nat
    BY <1>2, <2>1 DEF Taken
  <2> QED
    BY <2>1, <2>2, SubsetOfSize
<1>4. PICK pick : pick = [g \in GroupsOf(d) |->
                            CHOOSE T \in SUBSET AvailableIn(g) : Cardinality(T) = Taken(g)]
  OBVIOUS
<1>5. \A g \in GroupsOf(d) : pick[g] \in SUBSET AvailableIn(g) /\ Cardinality(pick[g]) = Taken(g)
  BY <1>3, <1>4
<1>6. PICK chosen : chosen = UNION {pick[g] : g \in GroupsOf(d)}
  OBVIOUS
<1>7. \A g \in GroupsOf(d) : chosen \cap OptionsOf(g) = pick[g]
  <2> SUFFICES ASSUME NEW g \in GroupsOf(d) PROVE chosen \cap OptionsOf(g) = pick[g]
    OBVIOUS
  <2>1. pick[g] \subseteq chosen /\ pick[g] \subseteq OptionsOf(g)
    BY <1>5, <1>6 DEF AvailableIn
  <2>2. ASSUME NEW m \in chosen, m \in OptionsOf(g) PROVE m \in pick[g]
    <3>1. PICK h \in GroupsOf(d) : m \in pick[h]
      BY <1>6
    <3>2. m \in OptionsOf(h)
      BY <1>5, <3>1 DEF AvailableIn
    <3>3. h = g
      BY <2>2, <3>2 DEF OptionsOf
    <3> QED
      BY <3>1, <3>3
  <2> QED
    BY <2>1, <2>2
<1>8. chosen \in SUBSET UNION {AvailableIn(g) : g \in GroupsOf(d)} /\ chosen \in SUBSET Options
  BY <1>5, <1>6 DEF AvailableIn, OptionsOf
<1>9. PICK count : count = [g \in Groups |-> Cardinality(chosen \cap OptionsOf(g))]
  OBVIOUS
<1>10. \A g \in GroupsOf(d) : count[g] = Taken(g)
  BY <1>1, <1>5, <1>7, <1>9
<1>11. \A g \in GroupsOf(d) :
         /\ groups[g].required => count[g] # 0
         /\ count[g] > 0 => count[g] >= effectiveMin(g)
         /\ count[g] <= groups[g].max
  <2> SUFFICES ASSUME NEW g \in GroupsOf(d)
               PROVE  /\ groups[g].required => count[g] # 0
                      /\ count[g] > 0 => count[g] >= effectiveMin(g)
                      /\ count[g] <= groups[g].max
    OBVIOUS
  <2>1. count[g] = Taken(g)
    BY <1>10
  <2> QED
    BY <1>1, <1>2, <2>1 DEF Taken, effectiveMin
<1>12. Resolves(d, SetToSeq(chosen))
  <2>1. d \in Dishes
    BY DEF LiveDishes
  <2> QED
    BY <1>8, <1>9, <1>11, <2>1, FittingSetResolves
<1> QED
  BY <1>8, <1>12

\* No dish is stuck: resolveSelections() accepts some choice of the available
\* options when the required groups have enough of them, unless the range of such
\* a group was never compared.
THEOREM DishesCanBeOrdered == MenuSpec => []DishOrderable
<1>1. MenuInv => DishOrderable
  BY EnoughOptionsResolve DEF DishOrderable
<1> QED
  BY <1>1, FullMenuInvariance, PTL
=============================================================================
