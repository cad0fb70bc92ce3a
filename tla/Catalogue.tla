----------------------------- MODULE Catalogue -----------------------------
(***************************************************************************)
(* Categories, products and availability rules, everyone who edits them    *)
(* (app/admin.py, the import of app/main.py), and the two pages made of    *)
(* them: the index page with its cache in the process (index, main.py) and *)
(* GET /api/menu (get_menu, timefirst_api.py; its Redis cache is the       *)
(* module MenuCache).                                                      *)
(*                                                                         *)
(* Saving or deleting with a form of sqladmin takes two steps: sqladmin    *)
(* calls on_model_change, which clears the cache of pages, and commits     *)
(* afterwards in a thread of its own.  The other edits commit and clear    *)
(* without leaving the event loop.                                         *)
(***************************************************************************)
EXTENDS SlotBoard

CONSTANTS
    Catalogues,     \* initial [cats, products, rules]
    Previews,       \* preview_period of requests: "none" or a period
    CategoryForms,  \* [parent, on] of category forms
    Defaults,       \* default_category_id of imports; 0: none
    RuleForms,      \* what a rule form may contain, with id 0
    Files,          \* CSV files: sequences of [name, cat]
    MaxChanges      \* bound: committed edits and orders

Periods == {"none", "both", "morning", "evening"}
CategoryRow == [parent : Nat, on : BOOLEAN, period : Periods]
Product == [id : Nat, name : STRING, cat : Nat, on : BOOLEAN,
            period : Periods, via : {"form", "api", "admin"}, batch : Nat]
Rules == [id : Nat, scope : {"product", "category"}, of : Nat,
          daypart : Dayparts, start : Int, end : Int, lead : Int,
          methods : SUBSET Methods, tomorrow : BOOLEAN,
          cutoff : 0 .. DayLength - 1, active : BOOLEAN]

\* Initial ids are below 10, and so are the lengths of files: NewId counts
\* in tens.  0 is no category.
ASSUME CatalogueAssumption ==
    /\ \A c \in Catalogues :
          /\ IsFiniteSet(DOMAIN c.cats) /\ IsFiniteSet(c.rules)
          /\ c.cats \in [DOMAIN c.cats -> CategoryRow]
          /\ DOMAIN c.cats \subseteq Nat \ {0}
          /\ \A i \in DOMAIN c.cats :
                c.cats[i].parent \in DOMAIN c.cats \cup {0}
          /\ \A p \in c.products :
                p \in Product /\ p.cat \in DOMAIN c.cats /\ p.id < 10
          /\ \A p, q \in c.products : p.id = q.id => p = q
          /\ \A p \in c.products : p.via = "form"
          /\ \A r \in c.rules : r \in Rules /\ r.id < 10
          /\ \A r, q \in c.rules : r.id = q.id => r = q
    /\ CategoryForms \subseteq [parent : Nat, on : BOOLEAN]
    /\ RuleForms \subseteq Rules
    /\ \A file \in Files :
          file \in Seq([name : STRING, cat : Nat]) /\ Len(file) < 10
    /\ Defaults \subseteq Nat
    /\ MaxChanges \in Nat

VARIABLES
    cats,       \* id -> [parent, on, period]; parent 0: none
    products,   \* set of [id, name, cat, on, period, via, batch]
    rules,      \* set of availability rules
    form,       \* the sqladmin form between its clear and its commit
    pages,      \* menu_cache: set of [key, rev, at]
    edits,      \* number of commits so far; a page's rev is its value then
    cleared     \* edits after the last commit that the cache was cleared for

shopVars == <<cats, products, rules>>
vars == <<clock, config, orders, cats, products, rules, form, pages, edits,
          cleared>>

CacheTTL == 60      \* seconds
NoForm == [kind |-> "none"]
Larger(a, b) == IF a < b THEN b ELSE a
Maximum(S) == CHOOSE m \in S : \A x \in S : x <= m

----------------------------------------------------------------------------
(* The category tree.                                                      *)

Active == {c \in DOMAIN cats : cats[c].on}
ActiveChildren(S) == {c \in Active : cats[c].parent \in S}

\* Broken variant: every active category is a root.
RootsEverywhere == Active

Roots == {c \in Active : cats[c].parent = 0}

\* What process_category_products reaches n calls below the roots.
Level[n \in 0 .. Cardinality(DOMAIN cats)] ==
    IF n = 0 THEN Roots ELSE ActiveChildren(Level[n - 1])

OnMenu == UNION {Level[n] : n \in 0 .. Cardinality(DOMAIN cats)}

\* A category and the categories above it, as far as get_menu climbs: to the
\* first one that is not active or was visited before.
Chain(cat) ==
    LET Up(S) == S \cup ({cats[c].parent : c \in S \cap Active} \ {0})
        climb[n \in 0 .. Cardinality(DOMAIN cats)] ==
            IF n = 0 THEN {cat} ELSE Up(climb[n - 1])
    IN  climb[Cardinality(DOMAIN cats)]

----------------------------------------------------------------------------
(* Availability and lead time.                                             *)

ActiveRules(scope, S) ==
    {r \in rules : r.active /\ r.scope = scope /\ r.of \in S}

\* convert_to_core_rule: a rule without methods allows both.
CoreRule(r) == [r EXCEPT !.methods = IF @ = {} THEN Methods ELSE @]

ProductRules(p) == {CoreRule(r) : r \in ActiveRules("product", {p.id})}
CategoryRules(p) == {CoreRule(r) : r \in ActiveRules("category", Chain(p.cat))}

Menu == {p \in products : p.on /\ p.cat \in OnMenu}

Availability(p, target, method, slot) ==
    CheckAvailability(ProductRules(p), CategoryRules(p), target, method, Now,
                      slot, Cutoff)

MaxLead(R) == Maximum({r.lead : r \in R})

\* lead_time_minutes of an item of /api/menu.
MenuLead(p) ==
    IF ProductRules(p) # {} THEN MaxLead(ProductRules(p))
    ELSE IF CategoryRules(p) # {} THEN MaxLead(CategoryRules(p))
    ELSE 0

\* get_lead_time of the index page: the largest lead time of the product's
\* rules, or else of its own category's.
IndexLead(p) ==
    LET own == ActiveRules("product", {p.id})
        cat == ActiveRules("category", {p.cat})
    IN  IF own # {} THEN Larger(0, MaxLead(own))
        ELSE IF cat # {} THEN Larger(0, MaxLead(cat)) ELSE 0

\* Broken variant: category rules come before those of the product.
OrderLeadByCategory(p) ==
    LET own == ActiveRules("product", {p.id})
        cat == ActiveRules("category", {p.cat})
        Newest(R) == CHOOSE r \in R : \A q \in R : q.id <= r.id
    IN  IF cat # {} THEN Larger(0, Newest(cat).lead)
        ELSE IF own # {} THEN Larger(0, Newest(own).lead) ELSE 0

\* _get_product_lead_time_minutes of create_order: the newest rule.
OrderLead(p) ==
    LET own == ActiveRules("product", {p.id})
        cat == ActiveRules("category", {p.cat})
        Newest(R) == CHOOSE r \in R : \A q \in R : q.id <= r.id
    IN  IF own # {} THEN Larger(0, Newest(own).lead)
        ELSE IF cat # {} THEN Larger(0, Newest(cat).lead) ELSE 0

----------------------------------------------------------------------------
(* The index page.                                                         *)

Morning == [start |-> 7 * 60, end |-> 10 * 60]
EveningMenuStart == 10 * 60
EveningEnd == 21 * 60

\* get_current_menu_period; "none" closes the shop.
MenuPeriod(t) ==
    IF t.min >= Morning.start /\ UpToMinute(t) <= Morning.end THEN "morning"
    ELSE IF t.min >= EveningMenuStart /\ UpToMinute(t) <= EveningEnd
         THEN "evening"
    ELSE IF UpToMinute(t) > EveningEnd \/ t.min < Morning.start THEN "morning"
    ELSE "none"

IsPreorder(t) == UpToMinute(t) > EveningEnd \/ t.min < Morning.start

\* Broken variant: the opening is always today's.
OpensAtToday(t) == Calendar(t.day, Morning.start)

OpensAt(t) ==
    Calendar(IF UpToMinute(t) > EveningEnd THEN t.day + 1 ELSE t.day,
             Morning.start)

\* Whole minutes until the opening, get_preorder_info.
TimeUntilOpen(t) == OpensAt(t) - Calendar(t.day, UpToMinute(t))

InPeriod(p, cat, period) ==
    (IF p.period = "none" THEN cats[cat].period ELSE p.period)
        \in {"both", period}

\* Broken variant: subcategories are shown whether active or not.
IndexAll(period) ==
    {p \in products :
        /\ p.on
        /\ p.cat \in DOMAIN cats
        /\ p.cat \in Roots \/ cats[p.cat].parent \in Roots
        /\ InPeriod(p, p.cat, period)}

\* Products of the active roots and of their active subcategories.
Index(period) ==
    {p \in products :
        /\ p.on
        /\ p.cat \in Roots \cup ActiveChildren(Roots)
        /\ InPeriod(p, p.cat, period)}

Seconds(t) == t.day * DayLength * 60 + t.min * 60 + t.sec
Fresh(page) == Seconds(Now) - Seconds(page.at) < CacheTTL

\* GET /, with preview_period or "none": a page that is not cached is made
\* from the database and, outside pre-order hours, kept.
OpenIndex ==
    /\ ~IsPreorder(Now)
    /\ \E preview \in Previews :
        LET period == IF preview = "none" THEN MenuPeriod(Now) ELSE preview
            key    == <<period, preview>>
        IN  /\ period # "none"
            /\ ~\E page \in pages : page.key = key
            /\ pages' = pages \cup {[key |-> key, rev |-> edits, at |-> Now]}
    /\ UNCHANGED <<boardVars, shopVars, form, edits, cleared>>

----------------------------------------------------------------------------
(* Edits.                                                                  *)

Commit == edits + Len(orders) < MaxChanges /\ edits' = edits + 1

CommitAndClear ==
    /\ Commit
    /\ pages' = {}
    /\ cleared' = edits + 1

CommitOnly == Commit /\ UNCHANGED <<pages, cleared>>

NewId == 10 * (edits + 1)

\* A form for a category, new or not, has been sent; base is the row as
\* sqladmin reads it.  The checks of CategoryAdmin.on_model_change look for
\* "parent_id" while the form has a field "parent", so they refuse nothing:
\* a category may become its own descendant.
SendCategory ==
    /\ form = NoForm
    /\ edits + Len(orders) < MaxChanges
    /\ \E id \in DOMAIN cats \cup {NewId}, sent \in CategoryForms :
          LET value == [parent |-> sent.parent, on |-> sent.on,
                        period |-> "both"]
          IN  form' = [kind |-> "category", id |-> id, value |-> value,
                       base |-> IF id \in DOMAIN cats THEN cats[id]
                                ELSE value]
    /\ pages' = {}
    /\ UNCHANGED <<boardVars, shopVars, edits, cleared>>

SendProduct ==
    /\ form = NoForm
    /\ edits + Len(orders) < MaxChanges
    /\ \E p \in products, cat \in DOMAIN cats :
          form' = [kind |-> "product", id |-> p.id, base |-> p,
                   value |-> [p EXCEPT !.cat = cat, !.via = "form"]]
    /\ pages' = {}
    /\ UNCHANGED <<boardVars, shopVars, edits, cleared>>

\* The confirmed deletion of a category or a product.
SendDeletion ==
    /\ form = NoForm
    /\ edits + Len(orders) < MaxChanges
    /\ \/ \E id \in DOMAIN cats :
             form' = [kind |-> "no category", id |-> id]
       \/ \E p \in products : form' = [kind |-> "no product", id |-> p.id]
    /\ pages' = {}
    /\ UNCHANGED <<boardVars, shopVars, edits, cleared>>

\* The columns the form changed are written to the row.
Changed(row) ==
    [f \in DOMAIN row |-> IF form.value[f] # form.base[f] THEN form.value[f]
                          ELSE row[f]]

CommitCategory ==
    /\ form.kind = "category"
    /\ form.id \in DOMAIN cats \cup {NewId}
    /\ form.value.parent \in DOMAIN cats \cup {0}
    /\ cats' = [c \in DOMAIN cats \cup {form.id} |->
                  IF c # form.id THEN cats[c]
                  ELSE IF c \in DOMAIN cats THEN Changed(cats[c])
                  ELSE form.value]
    /\ form' = NoForm
    /\ CommitOnly
    /\ UNCHANGED <<boardVars, products, rules>>

CommitProduct ==
    /\ form.kind = "product"
    /\ form.value.cat \in DOMAIN cats
    /\ \E p \in products :
          /\ p.id = form.id
          /\ products' = (products \ {p}) \cup {Changed(p)}
    /\ form' = NoForm
    /\ CommitOnly
    /\ UNCHANGED <<boardVars, cats, rules>>

\* Broken variant: children of a deleted category keep their parent.
CommitDeletionAlone ==
    /\ \/ /\ form.kind = "no category"
          /\ \A p \in products : p.cat # form.id
          /\ cats' = [c \in DOMAIN cats \ {form.id} |-> cats[c]]
          /\ UNCHANGED products
       \/ /\ form.kind = "no product"
          /\ products' = {p \in products : p.id # form.id}
          /\ UNCHANGED cats
    /\ form' = NoForm
    /\ CommitOnly
    /\ UNCHANGED <<boardVars, rules>>

\* A category loses its children, which become roots; with products it cannot
\* be deleted, their category_id may not be NULL.  Rules stay.
CommitDeletion ==
    /\ \/ /\ form.kind = "no category"
          /\ \A p \in products : p.cat # form.id
          /\ cats' = [c \in DOMAIN cats \ {form.id} |->
                        IF cats[c].parent = form.id
                        THEN [cats[c] EXCEPT !.parent = 0] ELSE cats[c]]
          /\ UNCHANGED products
       \/ /\ form.kind = "no product"
          /\ products' = {p \in products : p.id # form.id}
          /\ UNCHANGED cats
    /\ form' = NoForm
    /\ CommitOnly
    /\ UNCHANGED <<boardVars, rules>>

\* The save is refused by the database, or fails.
FormFails ==
    /\ form # NoForm
    /\ form' = NoForm
    /\ UNCHANGED <<boardVars, shopVars, pages, edits, cleared>>

\* Commit, then clear, on the event loop.
SetActive(pks, on) ==
    /\ products' = {IF p.id \in pks THEN [p EXCEPT !.on = on] ELSE p :
                       p \in products}
    /\ CommitAndClear
    /\ UNCHANGED <<boardVars, cats, rules, form>>

Selections == (SUBSET {p.id : p \in products}) \ {{}}

\* toggle_product_active_endpoint.
ToggleActive == \E p \in products, on \in BOOLEAN : SetActive({p.id}, on)

BulkActivate == \E pks \in Selections : SetActive(pks, TRUE)
BulkDeactivate == \E pks \in Selections : SetActive(pks, FALSE)

\* Broken variant: the cache is not cleared.
BulkMoveQuietly ==
    /\ \E pks \in Selections, cat \in DOMAIN cats :
          products' = {IF p.id \in pks THEN [p EXCEPT !.cat = cat] ELSE p :
                          p \in products}
    /\ Commit
    /\ cleared' = edits + 1
    /\ UNCHANGED <<boardVars, cats, rules, form, pages>>

\* bulk_move_category; the foreign key refuses a category that is not there.
BulkMove ==
    /\ \E pks \in Selections, cat \in DOMAIN cats :
          products' = {IF p.id \in pks THEN [p EXCEPT !.cat = cat] ELSE p :
                          p \in products}
    /\ CommitAndClear
    /\ UNCHANGED <<boardVars, cats, rules, form>>

----------------------------------------------------------------------------
(* Import of a CSV file.  A row's cat is 0 when the column is empty or      *)
(* names no category; a number is taken as it is.                          *)

RowCategory(row, default) == IF row.cat # 0 THEN row.cat ELSE default

\* The products the rows of a file become.
NewProducts(file, created, default, via) ==
    {[id |-> NewId + i, name |-> file[i].name,
      cat |-> RowCategory(file[i], default), on |-> TRUE, period |-> "none",
      via |-> via, batch |-> edits + 1] : i \in created}

\* Broken variant: names are not looked up.
CreatedByApiUnseen(file, default) ==
    {i \in 1 .. Len(file) : /\ file[i].name # ""
                            /\ RowCategory(file[i], default) # 0}

\* The rows import-csv creates products for.  The session does not flush, so
\* a name is looked up among the committed products only.
CreatedByApi(file, default) ==
    {i \in 1 .. Len(file) :
        /\ file[i].name # ""
        /\ RowCategory(file[i], default) # 0
        /\ \A p \in products : p.name # file[i].name}

\* POST /api/admin/products/import-csv: bad rows are left out, with or
\* without skip_errors, but one row with an unknown category id fails the
\* commit of all.
ImportApi ==
    /\ \E file \in Files, default \in {0} \cup (Defaults \cap DOMAIN cats) :
          LET new == NewProducts(file, CreatedByApi(file, default), default,
                                 "api")
          IN  /\ \A p \in new : p.cat \in DOMAIN cats
              /\ products' = products \cup new
    /\ CommitAndClear
    /\ UNCHANGED <<boardVars, cats, rules, form>>

\* The import of the product list: names are not looked up, any bad row
\* undoes the import unless skip_errors is on, the cache is not cleared.
ImportAdmin ==
    /\ \E file \in Files, default \in Defaults, skip \in BOOLEAN :
          LET good == {i \in 1 .. Len(file) :
                          /\ file[i].name # ""
                          /\ RowCategory(file[i], default) # 0}
              new  == NewProducts(file, good, default, "admin")
          IN  /\ skip \/ good = 1 .. Len(file)
              /\ \A p \in new : p.cat \in DOMAIN cats
              /\ products' = products \cup new
    /\ CommitOnly
    /\ UNCHANGED <<boardVars, cats, rules, form>>

----------------------------------------------------------------------------
(* Availability rules and the configuration.                               *)

\* on_model_change of AvailabilityRuleAdmin.
RuleAccepted(value) ==
    value.start # NoTime /\ value.end # NoTime => value.start < value.end

SaveRule ==
    /\ \E value \in RuleForms,
          id \in {r.id : r \in rules} \cup {NewId} :
          /\ RuleAccepted(value)
          /\ rules' = {r \in rules : r.id # id}
                      \cup {[value EXCEPT !.id = id]}
    /\ CommitOnly
    /\ UNCHANGED <<boardVars, cats, products, form>>

DeleteRule ==
    /\ \E r \in rules : rules' = rules \ {r}
    /\ CommitOnly
    /\ UNCHANGED <<boardVars, cats, products, form>>

\* update_daypart_endpoint.
ChangeDaypart ==
    /\ \E r \in rules, daypart \in Dayparts :
          rules' = (rules \ {r}) \cup {[r EXCEPT !.daypart = daypart]}
    /\ CommitOnly
    /\ UNCHANGED <<boardVars, cats, products, form>>

\* update_method_endpoint.
ChangeMethods ==
    /\ \E r \in rules, methods \in (SUBSET Methods) \ {{}} :
          rules' = (rules \ {r}) \cup {[r EXCEPT !.methods = methods]}
    /\ CommitOnly
    /\ UNCHANGED <<boardVars, cats, products, form>>

EditConfig ==
    /\ SaveConfig
    /\ CommitOnly
    /\ UNCHANGED <<shopVars, form>>

----------------------------------------------------------------------------

Init ==
    /\ SlotInit
    /\ \E c \in Catalogues : /\ cats = c.cats
                             /\ products = c.products
                             /\ rules = c.rules
    /\ form = NoForm
    /\ pages = {}
    /\ edits = 0
    /\ cleared = 0

\* What happens on the slot board leaves the catalogue alone.
ClockTicks ==
    /\ Tick
    /\ pages' = {page \in pages : Fresh(page)'}
    /\ UNCHANGED <<shopVars, form, edits, cleared>>
OrderPlaced ==
    /\ edits + Len(orders) < MaxChanges
    /\ PlaceOrder
    /\ UNCHANGED <<shopVars, form, pages, edits, cleared>>
OrderCancelled ==
    CancelOrder /\ UNCHANGED <<shopVars, form, pages, edits, cleared>>

FormStep == \/ SendCategory \/ SendProduct \/ SendDeletion
            \/ CommitCategory \/ CommitProduct \/ CommitDeletion \/ FormFails

Edit == \/ ToggleActive \/ BulkActivate \/ BulkDeactivate \/ BulkMove
        \/ ImportApi \/ ImportAdmin
        \/ SaveRule \/ DeleteRule \/ ChangeDaypart \/ ChangeMethods
        \/ EditConfig

Next == \/ ClockTicks \/ OrderPlaced \/ OrderCancelled
        \/ OpenIndex \/ FormStep \/ Edit

Spec == Init /\ [][Next]_vars

----------------------------------------------------------------------------
(* Properties.                                                             *)

TypeOK ==
    /\ SlotTypeOK
    /\ \A c \in DOMAIN cats : /\ cats[c].parent \in DOMAIN cats \cup {0}
                              /\ cats[c].on \in BOOLEAN
    /\ \A p \in products : p.cat \in DOMAIN cats
    /\ \A p, q \in products : p.id = q.id => p = q
    /\ \A r, q \in rules : r.id = q.id => r = q
    /\ edits \in 0 .. MaxChanges
    /\ cleared \in 0 .. edits

\* Whatever the admins do to parent links, cycles included, the recursion of
\* get_menu over cat.children (timefirst_api.py:566) comes to an end: below
\* an active root there is no level as deep as there are categories.
MenuRecursionEnds == Level[Cardinality(DOMAIN cats)] = {}

\* Every product the index page shows is an item of /api/menu, whose answer
\* decides what may be put into the cart.
IndexWithinMenu ==
    \A period \in {"morning", "evening"} : Index(period) \subseteq Menu

\* A rule by which a product may be delivered at a time: its own, or, when no
\* rule of its own is for the method, one of a category above it.
Serves(r, p, method, date, slot) ==
    /\ r.active
    /\ r.methods = {} \/ method \in r.methods
    /\ Contains(EffectiveWindow(r), slot)
    /\ r.lead > 0 =>
          Calendar(date, slot)
              >= Calendar(Now.day, UpToMinute(Now)) + r.lead
    /\ \/ r.scope = "product" /\ r.of = p.id
       \/ /\ r.scope = "category"
          /\ r.of \in Chain(p.cat)
          /\ \A q \in rules :
                q.active /\ q.scope = "product" /\ q.of = p.id =>
                    q.methods # {} /\ method \notin q.methods

\* A product that /api/menu calls available at a slot that /api/slots offers
\* can be delivered then: create_order takes the slot, which is not of a
\* Sunday and at least the buffer away (unless rounding has carried "now" past
\* midnight), and a rule of the product's own, or else of a category above it,
\* allows the method, has the slot in its window and leaves its lead time.
\* That the rule allows tomorrow, and until when, is no part of it: what a
\* rule says of that nobody reads.
AvailableMeansDeliverable ==
    \A target \in Targets : LET offered == Offered(target)
                                date    == TargetDate(target, Now) IN
        \A p \in Menu, method \in Methods, w \in Wishes :
            /\ w.slot \in offered
            /\ Availability(p, target, method, w.slot).available
            =>
            /\ CheckSlot(w.slot, date) /\ ~IsSunday(date)
            /\ CeilToInterval(Now, config.step) < DayLength =>
                  Calendar(date, w.slot)
                      >= Calendar(Now.day, UpToMinute(Now)) + config.buffer
            /\ \E r \in rules : Serves(r, p, method, date, w.slot)

\* Three computations of a lead time (main.py:442, main.py:1076,
\* timefirst_api.py:515): the one an order is promised with is at most the
\* one the index page shows, and that one is at most the one of the menu,
\* which alone does not count a negative lead time as none.
LeadsOrdered ==
    \A period \in {"morning", "evening"} : \A p \in Index(period) :
        /\ OrderLead(p) <= IndexLead(p)
        /\ IndexLead(p) <= Larger(0, MenuLead(p))

\* A page from the cache shows every edit that clears the cache after its
\* commit (buttons, bulk actions, import-csv); it may miss what forms, rules,
\* configuration and the import of the product list changed.
PagesShowEdits == \A page \in pages : page.rev >= cleared

\* import-csv creates no product of a name that was there before; two of one
\* name come from one file.
DuplicatesComeFromOneFile ==
    \A p, q \in products :
        p.id < q.id /\ p.name = q.name /\ q.via = "api" => p.batch = q.batch

\* During pre-order hours the opening announced lies ahead, at most a night
\* away.
PreorderOpensAhead ==
    IsPreorder(Now) => TimeUntilOpen(Now) \in 0 .. 10 * 60

============================================================================
