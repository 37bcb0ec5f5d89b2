-------------------------------- MODULE Menu --------------------------------
(***************************************************************************)
(* The menu: categories, dishes (MenuItem), their modifier groups and the  *)
(* groups' options (src/menu), and how the lines of orders use it          *)
(* (OrdersService.create and addItem in src/orders).                       *)
(*                                                                         *)
(* A request that tests what it read before it writes is a slot of         *)
(* menuCalls; all others write in one step.  Foreign keys: a dish needs    *)
(* its category, a line its dish, and neither may be deleted under them;   *)
(* groups and options go with what they belong to.  What a line costs      *)
(* besides its options is in OrderTotals.                                  *)
(*                                                                         *)
(* History: unchecked holds the groups whose range no test compared: it    *)
(* was created with a default nobody looked at, or one bound was changed   *)
(* although the other was not what the test had read any more.  A line     *)
(* request is overtaken when the menu changes after its first read.        *)
(***************************************************************************)
EXTENDS Integers, SequencesExt, Sql

CONSTANTS Categories, Dishes, Groups, Options,   \* ids that rows may get
          OptionDeltas,                          \* prices of options, may be negative
          MinSelects, MaxSelects, Flags,         \* bounds and flags that clients send
          Selections,                            \* option lists that clients send
          MenuCalls,                             \* slots for concurrent requests
          MaxLines                               \* bound: order lines

ASSUME MenuAssumption ==
  /\ OptionDeltas \subseteq Int
  /\ MinSelects \subseteq Nat /\ MaxSelects \subseteq Nat \ {0}
  /\ Flags \subseteq BOOLEAN \cup {Unsent}
  /\ Selections \subseteq Seq(Options)
  /\ MaxLines \in Nat
  /\ IsFiniteSet(Options)
  /\ Unsent \notin Nat /\ Null \notin Nat \X Nat

VARIABLES categories,   \* category -> "absent", "live" or "gone"
          dishes,       \* dish -> [state, available, category]
          groups,       \* group -> [state, dish, required, min, max]
          options,      \* option -> [state, group, available, delta]
          menuLines,    \* order lines, [dish, chosen, delta], in commit order
          menuCalls,    \* request slot -> the handler's position and memory
          unchecked

menuVars == <<categories, dishes, groups, options, menuLines, menuCalls, unchecked>>

NoDish(state) == [state |-> state, available |-> FALSE, category |-> Null]
NoGroup(state) == [state |-> state, dish |-> Null, required |-> FALSE, min |-> 0, max |-> 1]
NoOption(state) == [state |-> state, group |-> Null, available |-> FALSE, delta |-> 0]
NoMenuCall == [at |-> "idle", dish |-> Null, chosen |-> {}, delta |-> 0, group |-> Null,
               min |-> Null, max |-> Null, read |-> Null, overtaken |-> FALSE]

MenuInit ==
  /\ categories = [k \in Categories |-> "absent"]
  /\ dishes = [d \in Dishes |-> NoDish("absent")]
  /\ groups = [g \in Groups |-> NoGroup("absent")]
  /\ options = [m \in Options |-> NoOption("absent")]
  /\ menuLines = <<>>
  /\ menuCalls = [c \in MenuCalls |-> NoMenuCall]
  /\ unchecked = {}

LiveCategories == {k \in Categories : categories[k] = "live"}
LiveDishes == {d \in Dishes : dishes[d].state = "live"}
GroupsOf(d) == {g \in Groups : groups[g].state = "live" /\ groups[g].dish = d}
LiveGroups == UNION {GroupsOf(d) : d \in Dishes}
OptionsOf(g) == {m \in Options : options[m].state = "live" /\ options[m].group = g}
LinesOf(d) == {n \in DOMAIN menuLines : menuLines[n].dish = d}

\* The menu changed, by the request of slot c if it has one, which is over: the
\* line requests in flight may have read what is outdated now.
MenuChanged(over) ==
  menuCalls' = [c \in MenuCalls |->
    IF c \in over THEN NoMenuCall
    ELSE [menuCalls[c] EXCEPT !.overtaken = @ \/ menuCalls[c].at \in {"resolve", "insertLine"}]]

-----------------------------------------------------------------------------
\* CategoriesService and MenuItemsService.

CreateCategory(k) ==
  /\ categories[k] = "absent"
  /\ categories' = [categories EXCEPT ![k] = "live"]
  /\ UNCHANGED <<dishes, groups, options, menuLines, menuCalls, unchecked>>

RemoveCategory(k) ==
  /\ k \in LiveCategories
  /\ \A d \in LiveDishes : dishes[d].category # k
  /\ categories' = [categories EXCEPT ![k] = "gone"]
  /\ UNCHANGED <<dishes, groups, options, menuLines, menuCalls, unchecked>>

CreateDish(d, k, available) ==
  /\ dishes[d].state = "absent" /\ k \in LiveCategories
  /\ dishes' = [dishes EXCEPT ![d] =
       [state |-> "live", available |-> Sent(available, TRUE), category |-> k]]
  /\ UNCHANGED <<categories, groups, options, menuLines, menuCalls, unchecked>>

\* PATCH /menu-items/:id, and with available = FALSE also its deactivation.  (In
\* an update of one statement, a field left out is one sent as the row has it.)
UpdateDish(d, k, available) ==
  /\ d \in LiveDishes /\ k \in LiveCategories
  /\ dishes' = [dishes EXCEPT ![d].category = k, ![d].available = available]
  /\ MenuChanged({})
  /\ UNCHANGED <<categories, groups, options, menuLines, unchecked>>

\* DELETE /menu-items/:id counts the dish's lines ...
RequestDishRemoval(c, d) ==
  /\ menuCalls[c] = NoMenuCall
  /\ d \in LiveDishes /\ LinesOf(d) = {}
  /\ menuCalls' = [menuCalls EXCEPT ![c] = [NoMenuCall EXCEPT !.at = "deleteDish", !.dish = d]]
  /\ UNCHANGED <<categories, dishes, groups, options, menuLines, unchecked>>

\* A dish goes with its groups and their options.
DishGone(d) ==
  /\ dishes' = [dishes EXCEPT ![d] = NoDish("gone")]
  /\ groups' = [g \in Groups |-> IF g \in GroupsOf(d) THEN NoGroup("gone") ELSE groups[g]]
  /\ options' = [m \in Options |-> IF \E g \in GroupsOf(d) : m \in OptionsOf(g)
                                   THEN NoOption("gone") ELSE options[m]]
  /\ unchecked' = unchecked \ GroupsOf(d)
  /\ UNCHANGED <<categories, menuLines>>

\* Mutant: the count alone stops the deletion.
DeleteDishUnrestricted(c) ==
  /\ menuCalls[c].at = "deleteDish"
  /\ menuCalls[c].dish \in LiveDishes
  /\ DishGone(menuCalls[c].dish)
  /\ MenuChanged({c})

\* ... and the database looks again: the foreign key of a line restricts.
DeleteDish(c) ==
  /\ menuCalls[c].at = "deleteDish"
  /\ menuCalls[c].dish \in LiveDishes /\ LinesOf(menuCalls[c].dish) = {}
  /\ DishGone(menuCalls[c].dish)
  /\ MenuChanged({c})

-----------------------------------------------------------------------------
\* ModifiersService: groups and options.

\* Mutant: the bounds are never compared.
assertNothing(min, max) == TRUE

assertMinMax(min, max) == min # Unsent /\ max # Unsent => min <= max

\* A group may come with its first options; no bound sent is compared with a
\* default.
CreateGroup(g, d, required, min, max, first, available, delta) ==
  /\ groups[g].state = "absent" /\ d \in LiveDishes
  /\ assertMinMax(min, max)
  /\ groups' = [groups EXCEPT ![g] =
       [state |-> "live", dish |-> d, required |-> Sent(required, FALSE),
        min |-> Sent(min, 0), max |-> Sent(max, 1)]]
  /\ \A m \in first : options[m].state = "absent"
  /\ options' = [m \in Options |-> IF m \notin first THEN options[m]
       ELSE [state |-> "live", group |-> g, available |-> Sent(available, TRUE), delta |-> delta]]
  /\ unchecked' = unchecked \cup {x \in {g} : max = Unsent /\ min # Unsent /\ min > 1}
  /\ MenuChanged({})
  /\ UNCHANGED <<categories, dishes, menuLines>>

GroupRange(g) == <<groups[g].min, groups[g].max>>

\* PATCH /modifier-groups/:id compares what is sent with the row it read ...
RequestGroupUpdate(c, g, min, max) ==
  /\ menuCalls[c] = NoMenuCall
  /\ g \in LiveGroups
  /\ assertMinMax(Sent(min, groups[g].min), Sent(max, groups[g].max))
  /\ menuCalls' = [menuCalls EXCEPT ![c] =
       [NoMenuCall EXCEPT !.at = "updateGroup", !.group = g, !.min = min, !.max = max,
                          !.read = IF Unsent \in {min, max} THEN GroupRange(g) ELSE Null]]
  /\ UNCHANGED <<categories, dishes, groups, options, menuLines, unchecked>>

\* ... and writes what was sent over the row as it is by then.  (What a request
\* carries is chosen in the step that first uses it.)
UpdateGroup(c, required) ==
  LET call == menuCalls[c]
      g == call.group
  IN /\ call.at = "updateGroup"
     /\ g \in LiveGroups
     /\ groups' = [groups EXCEPT ![g].required = Sent(required, @),
                                 ![g].min = Sent(call.min, @), ![g].max = Sent(call.max, @)]
     /\ unchecked' = IF call.read \notin {Null, GroupRange(g)}
                     THEN unchecked \cup {g} ELSE unchecked \ {g}
     /\ MenuChanged({c})
     /\ UNCHANGED <<categories, dishes, options, menuLines>>

RemoveGroup(g) ==
  /\ g \in LiveGroups
  /\ groups' = [groups EXCEPT ![g] = NoGroup("gone")]
  /\ options' = [m \in Options |-> IF m \in OptionsOf(g) THEN NoOption("gone") ELSE options[m]]
  /\ unchecked' = unchecked \ {g}
  /\ MenuChanged({})
  /\ UNCHANGED <<categories, dishes, menuLines>>

AddOption(m, g, available, delta) ==
  /\ options[m].state = "absent" /\ g \in LiveGroups
  /\ options' = [options EXCEPT ![m] =
       [state |-> "live", group |-> g, available |-> Sent(available, TRUE), delta |-> delta]]
  /\ MenuChanged({})
  /\ UNCHANGED <<categories, dishes, groups, menuLines, unchecked>>

UpdateOption(m, available, delta) ==
  /\ options[m].state = "live"
  /\ options' = [options EXCEPT ![m].available = available, ![m].delta = delta]
  /\ MenuChanged({})
  /\ UNCHANGED <<categories, dishes, groups, menuLines, unchecked>>

RemoveOption(m) ==
  /\ options[m].state = "live"
  /\ options' = [options EXCEPT ![m] = NoOption("gone")]
  /\ MenuChanged({})
  /\ UNCHANGED <<categories, dishes, groups, menuLines, unchecked>>

-----------------------------------------------------------------------------
\* Ordering a dish: addItem, and one line of create.

\* resolveSelections() goes through the list, then through the dish's groups.
CountIn(g, ids) == Cardinality({n \in DOMAIN ids : ids[n] \in OptionsOf(g)})

effectiveMin(g) == IF groups[g].required /\ groups[g].min < 1 THEN 1 ELSE groups[g].min

\* Mutant: fewer options than the minimum are enough.
GroupAcceptsFewer(g, ids) ==
  /\ groups[g].required => CountIn(g, ids) # 0
  /\ CountIn(g, ids) <= groups[g].max

GroupAccepts(g, ids) ==
  /\ groups[g].required => CountIn(g, ids) # 0
  /\ CountIn(g, ids) > 0 => CountIn(g, ids) >= effectiveMin(g)
  /\ CountIn(g, ids) <= groups[g].max

Resolves(d, ids) ==
  /\ IsInjective(ids)
  /\ \A n \in DOMAIN ids : /\ \E g \in GroupsOf(d) : ids[n] \in OptionsOf(g)
                           /\ options[ids[n]].available
  /\ \A g \in GroupsOf(d) : GroupAccepts(g, ids)

deltaCentsPerUnit(ids) == FoldLeft(LAMBDA sum, m : sum + options[m].delta, 0, ids)

\* The dish is read first ...
RequestLine(c, d) ==
  /\ menuCalls[c] = NoMenuCall
  /\ d \in LiveDishes /\ dishes[d].available
  /\ Len(menuLines) < MaxLines
  /\ menuCalls' = [menuCalls EXCEPT ![c] =
       [NoMenuCall EXCEPT !.at = "resolve", !.dish = d]]
  /\ UNCHANGED <<categories, dishes, groups, options, menuLines, unchecked>>

\* ... then its groups and options ...
ResolveLine(c, ids) ==
  /\ menuCalls[c].at = "resolve"
  /\ Resolves(menuCalls[c].dish, ids)
  /\ menuCalls' = [menuCalls EXCEPT ![c].at = "insertLine", ![c].chosen = ToSet(ids),
                                    ![c].delta = deltaCentsPerUnit(ids)]
  /\ UNCHANGED <<categories, dishes, groups, options, menuLines, unchecked>>

\* ... and the line keeps a copy of what was chosen and what it cost.
InsertLine(c) ==
  /\ menuCalls[c].at = "insertLine"
  /\ menuCalls[c].dish \in LiveDishes
  /\ Len(menuLines) < MaxLines
  /\ menuLines' = Append(menuLines, [dish |-> menuCalls[c].dish,
                                     chosen |-> menuCalls[c].chosen,
                                     delta |-> menuCalls[c].delta])
  /\ menuCalls' = [menuCalls EXCEPT ![c] = NoMenuCall]
  /\ UNCHANGED <<categories, dishes, groups, options, unchecked>>

\* A rejection, a refused write or a crash ends a request.
AbandonMenuCall(c) ==
  /\ menuCalls[c] # NoMenuCall
  /\ menuCalls' = [menuCalls EXCEPT ![c] = NoMenuCall]
  /\ UNCHANGED <<categories, dishes, groups, options, menuLines, unchecked>>

-----------------------------------------------------------------------------
EditDishes ==
  \/ \E k \in Categories : CreateCategory(k) \/ RemoveCategory(k)
  \/ \E d \in Dishes, k \in Categories, available \in Flags : CreateDish(d, k, available)
  \/ \E d \in Dishes, k \in Categories, available \in BOOLEAN : UpdateDish(d, k, available)

EditGroups ==
  \/ \E g \in Groups, d \in Dishes, required \in Flags, min \in MinSelects \cup {Unsent},
        max \in MaxSelects \cup {Unsent}, first \in SUBSET Options, available \in Flags,
        delta \in OptionDeltas :
       CreateGroup(g, d, required, min, max, first, available, delta)
  \/ \E g \in Groups : RemoveGroup(g)
  \/ \E m \in Options, g \in Groups, available \in Flags, delta \in OptionDeltas :
       AddOption(m, g, available, delta)
  \/ \E m \in Options, available \in BOOLEAN, delta \in OptionDeltas :
       UpdateOption(m, available, delta)
  \/ \E m \in Options : RemoveOption(m)

MenuRequest(c) ==
  \/ \E d \in Dishes : RequestDishRemoval(c, d)
  \/ DeleteDish(c)
  \/ \E g \in Groups, min \in MinSelects \cup {Unsent}, max \in MaxSelects \cup {Unsent} :
       RequestGroupUpdate(c, g, min, max)
  \/ \E required \in Flags : UpdateGroup(c, required)
  \/ \E d \in Dishes : RequestLine(c, d)
  \/ \E ids \in Selections : ResolveLine(c, ids)
  \/ InsertLine(c)
  \/ AbandonMenuCall(c)

MenuNext == EditDishes \/ EditGroups \/ \E c \in MenuCalls : MenuRequest(c)

MenuSpec == MenuInit /\ [][MenuNext]_menuVars

-----------------------------------------------------------------------------
\* Rows have their columns' types.
MenuTypeOK ==
  /\ \A g \in Groups : groups[g].min \in Nat /\ groups[g].max \in Nat \ {0}
  /\ \A m \in Options : options[m].group \in Groups \cup {Null} /\ options[m].delta \in Int
  /\ \A n \in DOMAIN menuLines : menuLines[n].delta \in Int
  /\ \A c \in MenuCalls :
       menuCalls[c].at \in {"idle", "deleteDish", "updateGroup", "resolve", "insertLine"}
  /\ unchecked \subseteq LiveGroups

AvailableIn(g) == {m \in OptionsOf(g) : options[m].available}

\* A dish can be ordered whenever its required groups have enough available
\* options: some choice of them is accepted, through creations and concurrent
\* updates of either bound, unless the range of a required group was never
\* compared.
DishOrderable ==
  \A d \in LiveDishes :
    (\A g \in GroupsOf(d) : groups[g].required =>
       g \notin unchecked /\ Cardinality(AvailableIn(g)) >= effectiveMin(g))
    => \E chosen \in SUBSET UNION {AvailableIn(g) : g \in GroupsOf(d)} :
         Resolves(d, SetToSeq(chosen))

\* A line whose request the menu did not overtake keeps to the menu of its time:
\* its options are available ones of the dish, of each group none or a number
\* in the group's range, of a required group some, and it costs their sum.
LineRespectsMenu ==
  [][\A c \in MenuCalls :
      LET line == menuLines'[Len(menuLines')]
          used(g) == line.chosen \cap OptionsOf(g)
      IN menuLines' # menuLines /\ menuCalls[c].at = "insertLine"
           /\ menuCalls'[c] = NoMenuCall /\ ~menuCalls[c].overtaken =>
         /\ dishes[line.dish].available
         /\ line.chosen \subseteq UNION {AvailableIn(g) : g \in GroupsOf(line.dish)}
         /\ line.delta = MapThenSumSet(LAMBDA m : options[m].delta, line.chosen)
         /\ \A g \in GroupsOf(line.dish) :
              \/ ~groups[g].required /\ used(g) = {}
              \/ used(g) # {} /\ Cardinality(used(g)) \in groups[g].min..groups[g].max]_menuVars

\* A dish that was ordered stays, and so does its category, although the orders
\* are counted before the deletion and not in it.
OrderedDishStays ==
  \A n \in DOMAIN menuLines :
    /\ menuLines[n].dish \in LiveDishes
    /\ dishes[menuLines[n].dish].category \in LiveCategories
=============================================================================
