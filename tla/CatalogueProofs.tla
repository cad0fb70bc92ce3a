-------------------------- MODULE CatalogueProofs --------------------------
(***************************************************************************)
(* Proofs about the catalogue, for every tree of categories, every set of  *)
(* products, rules and files, and any number of edits.                     *)
(***************************************************************************)
EXTENDS Catalogue, SlotBoardProofs, WellFoundedInduction

----------------------------------------------------------------------------
(* The slot board under the catalogue.                                     *)

\* No edit of the catalogue does to the clock, the configuration and the
\* orders what SlotBoard does not allow, so what is proved of the slot board
\* holds here.
THEOREM BoardIsImplemented == Spec => SlotSpec
<1>1. Init => SlotInit
  BY DEF Init
<1>2. [Next]_vars => [SlotNext]_boardVars
  <2> SUFFICES ASSUME [Next]_vars PROVE [SlotNext]_boardVars
    OBVIOUS
  <2>1. CASE UNCHANGED vars
    BY <2>1 DEF vars, boardVars
  <2>2. CASE ClockTicks \/ OrderPlaced \/ OrderCancelled
    BY <2>2 DEF ClockTicks, OrderPlaced, OrderCancelled, SlotNext
  <2>3. CASE OpenIndex
    BY <2>3 DEF OpenIndex
  <2>4. CASE FormStep
    BY <2>4 DEF FormStep, SendCategory, SendProduct, SendDeletion,
                CommitCategory, CommitProduct, CommitDeletion, FormFails
  <2>5. CASE Edit
    BY <2>5 DEF Edit, ToggleActive, BulkActivate, BulkDeactivate, SetActive,
                BulkMove, ImportApi, ImportAdmin, SaveRule, DeleteRule,
                ChangeDaypart, ChangeMethods, EditConfig, SlotNext
  <2> QED
    BY <2>1, <2>2, <2>3, <2>4, <2>5 DEF Next
<1> QED
  BY <1>1, <1>2, PTL DEF Spec, SlotSpec

\* GET /api/slots and create_order agree also while the shop is edited.
THEOREM BothGridsAgreeInShop == Spec => []SlotsAgree
BY BoardIsImplemented, BothGridsAgree, PTL

----------------------------------------------------------------------------
(* Pre-order hours.                                                        *)

\* While orders are pre-orders the announced opening is at most ten hours
\* away, and never behind.
THEOREM OpeningIsAhead == Spec => []PreorderOpensAhead
<1>1. ASSUME BoardType PROVE PreorderOpensAhead
  <2>1. Now \in Instant
    BY <1>1, NowType
  <2> DEFINE m == UpToMinute(Now)
             d == Now.day
  <2>2. d \in Nat /\ Now.min \in 0 .. DayLength - 1
    BY SMT, <2>1 DEF Instant
  <2>3. m \in 0 .. DayLength /\ m <= Now.min + 1
    <3>1. m \in 0 .. DayLength
      BY SMT, <2>1, UpToMinuteType
    <3>2. m = Now.min \/ m = Now.min + 1
      BY Zenon DEF UpToMinute
    <3> QED
      BY SMTT(40), <2>2, <3>1, <3>2 DEF DayLength
  <2> HIDE DEF m, d
  <2>4. CASE m > EveningEnd
    <3>1. TimeUntilOpen(Now) = Calendar(d + 1, 7 * 60) - Calendar(d, m)
      BY <2>4 DEF TimeUntilOpen, OpensAt, Morning, m, d
    <3> QED
      BY <2>2, <2>3, <2>4, <3>1
         DEF Calendar, DayLength, EveningEnd, PreorderOpensAhead
  <2>5. CASE ~(m > EveningEnd) /\ Now.min < Morning.start
    <3>1. TimeUntilOpen(Now) = Calendar(d, 7 * 60) - Calendar(d, m)
      BY <2>5 DEF TimeUntilOpen, OpensAt, Morning, m, d
    <3>2. Now.min < 7 * 60
      BY <2>5 DEF Morning
    <3>3. m \in 0 .. 7 * 60
      BY SMTT(40), <2>2, <2>3, <3>2 DEF DayLength
    <3>4. TimeUntilOpen(Now) = 7 * 60 - m
      BY <2>2, <3>1, <3>3 DEF Calendar, DayLength
    <3> QED
      BY <3>3, <3>4 DEF PreorderOpensAhead
  <2> QED
    BY <2>4, <2>5 DEF PreorderOpensAhead, IsPreorder, m
<1> QED
  BY <1>1, BoardIsImplemented, BoardTypeHolds, PTL

----------------------------------------------------------------------------
(* The cache of pages.                                                     *)

CountersOK == edits \in 0 .. MaxChanges /\ cleared \in 0 .. edits

\* How a step changes the counters and the pages.
LEMMA CountersOfAStep ==
    ASSUME [Next]_vars
    PROVE  \/ /\ UNCHANGED <<edits, cleared>>
              /\ \A page \in pages' : page \in pages \/ page.rev = edits
           \/ edits + Len(orders) < MaxChanges /\ edits' = edits + 1 /\
              \/ pages' = {} /\ cleared' = edits + 1
              \/ UNCHANGED <<pages, cleared>>
<1>1. CASE UNCHANGED vars
  BY <1>1 DEF vars
<1>2. CASE ClockTicks \/ OrderPlaced \/ OrderCancelled
  BY <1>2 DEF ClockTicks, OrderPlaced, OrderCancelled
<1>3. CASE OpenIndex
  BY <1>3 DEF OpenIndex
<1>4. CASE SendCategory \/ SendProduct \/ SendDeletion \/ FormFails
  BY <1>4 DEF SendCategory, SendProduct, SendDeletion, FormFails
<1>5. CASE CommitCategory \/ CommitProduct \/ CommitDeletion
  BY <1>5 DEF CommitCategory, CommitProduct, CommitDeletion, CommitOnly,
              Commit
<1>6. CASE \/ ToggleActive \/ BulkActivate \/ BulkDeactivate
           \/ BulkMove \/ ImportApi
  BY <1>6 DEF ToggleActive, BulkActivate, BulkDeactivate, SetActive,
              BulkMove, ImportApi, CommitAndClear, Commit
<1>7. CASE \/ ImportAdmin \/ SaveRule \/ DeleteRule \/ ChangeDaypart
           \/ ChangeMethods \/ EditConfig
  BY <1>7 DEF ImportAdmin, SaveRule, DeleteRule, ChangeDaypart,
              ChangeMethods, EditConfig, CommitOnly, Commit
<1> QED
  BY <1>1, <1>2, <1>3, <1>4, <1>5, <1>6, <1>7 DEF Next, FormStep, Edit

LEMMA CountersStep ==
    ASSUME BoardType, CountersOK, [Next]_vars PROVE CountersOK'
<1>1. Len(orders) \in Nat
  BY DEF BoardType
<1>2. MaxChanges \in Nat
  BY CatalogueAssumption
<1> QED
  BY <1>1, <1>2, CountersOfAStep DEF CountersOK

LEMMA CountersHold == Spec => []CountersOK
<1>1. Init => CountersOK
  BY CatalogueAssumption DEF Init, CountersOK
<1>2. BoardType /\ CountersOK /\ [Next]_vars => CountersOK'
  BY CountersStep
<1> QED
  BY <1>1, <1>2, BoardIsImplemented, BoardTypeHolds, PTL DEF Spec

\* No page in the cache is older than the last edit that cleared it after
\* its commit, whatever forms are under way.
THEOREM PagesAreFresh == Spec => []PagesShowEdits
<1>1. Init => PagesShowEdits
  BY DEF Init, PagesShowEdits
<1>2. CountersOK /\ PagesShowEdits /\ [Next]_vars => PagesShowEdits'
  <2> SUFFICES ASSUME CountersOK, PagesShowEdits, [Next]_vars
               PROVE  PagesShowEdits'
    OBVIOUS
  <2>1. edits \in Nat /\ cleared \in Nat /\ cleared <= edits
    BY CatalogueAssumption DEF CountersOK
  <2> QED
    BY <2>1, CountersOfAStep DEF PagesShowEdits
<1> QED
  BY <1>1, <1>2, CountersHold, PTL DEF Spec

----------------------------------------------------------------------------
(* Types of the catalogue.                                                 *)

RowsOK ==
    /\ cats \in [DOMAIN cats -> CategoryRow]
    /\ DOMAIN cats \subseteq Nat \ {0}
    /\ \A c \in DOMAIN cats : cats[c].parent \in DOMAIN cats \cup {0}

ProductsOK ==
    /\ \A p \in products :
          p \in Product /\ p.cat \in DOMAIN cats /\ p.id < NewId
    /\ \A p, q \in products : p.id = q.id => p = q

RulesOK ==
    /\ \A r \in rules : r \in Rules /\ r.id < NewId
    /\ \A r, q \in rules : r.id = q.id => r = q

\* What sqladmin read and what the form says, between clear and commit.
FormOK ==
    /\ form.kind = "category" =>
          /\ form.id \in Nat \ {0}
          /\ form.value \in CategoryRow /\ form.base \in CategoryRow
    /\ form.kind = "product" =>
          /\ form.value \in Product /\ form.base \in Product
          /\ form.value.id = form.base.id /\ form.value.name = form.base.name
          /\ form.value.batch = form.base.batch
          /\ form.value.via = "form"

\* A later product of the same name as one of import-csv's is of the same
\* import.
NamesOK ==
    \A p, q \in products :
        p.id < q.id /\ p.name = q.name /\ q.via = "api" => p.batch = q.batch

ShopOK == RowsOK /\ ProductsOK /\ RulesOK /\ FormOK /\ NamesOK

LEMMA ShopInit == Init => ShopOK
<1> SUFFICES ASSUME Init PROVE ShopOK
  OBVIOUS
<1>1. PICK c \in Catalogues :
        cats = c.cats /\ products = c.products /\ rules = c.rules
  BY DEF Init
<1>2. NewId = 10
  BY DEF Init, NewId
<1>3. RowsOK
  BY <1>1, CatalogueAssumption DEF RowsOK
<1>4. ProductsOK
  BY <1>1, <1>2, CatalogueAssumption DEF ProductsOK
<1>5. RulesOK
  BY <1>1, <1>2, CatalogueAssumption DEF RulesOK
<1>6. FormOK
  BY DEF Init, NoForm, FormOK
<1>7. NamesOK
  BY <1>1, CatalogueAssumption DEF NamesOK
<1> QED
  BY <1>3, <1>4, <1>5, <1>6, <1>7 DEF ShopOK

\* A step without a commit keeps the rows.
LEMMA ShopWithoutCommit ==
    ASSUME ShopOK, UNCHANGED <<cats, products, rules, edits>>, FormOK'
    PROVE  ShopOK'
BY DEF ShopOK, RowsOK, ProductsOK, RulesOK, NamesOK, NewId

LEMMA IdsGrow ==
    ASSUME CountersOK, edits' = edits + 1
    PROVE  /\ NewId \in Nat \ {0} /\ NewId' = NewId + 10
           /\ \A i \in Nat : i < NewId => i < NewId'
<1>1. edits \in Nat
  BY CatalogueAssumption DEF CountersOK
<1> QED
  BY <1>1 DEF NewId

LEMMA FormSteps ==
    ASSUME ShopOK, CountersOK,
           SendCategory \/ SendProduct \/ SendDeletion \/ FormFails
    PROVE  ShopOK'
<1>1. UNCHANGED <<cats, products, rules, edits>>
  BY DEF SendCategory, SendProduct, SendDeletion, FormFails, shopVars
<1>2. CASE SendCategory
  <2>1. PICK id \in DOMAIN cats \cup {NewId}, sent \in CategoryForms :
          LET value == [parent |-> sent.parent, on |-> sent.on,
                        period |-> "both"]
          IN  form' = [kind |-> "category", id |-> id, value |-> value,
                       base |-> IF id \in DOMAIN cats THEN cats[id]
                                ELSE value]
    BY <1>2 DEF SendCategory
  <2> DEFINE value == [parent |-> sent.parent, on |-> sent.on,
                       period |-> "both"]
             base == IF id \in DOMAIN cats THEN cats[id] ELSE value
  <2>2. sent \in [parent : Nat, on : BOOLEAN]
    BY CatalogueAssumption
  <2>3. value \in CategoryRow
    <3>1. sent.parent \in Nat /\ sent.on \in BOOLEAN
      BY <2>2, Zenon
    <3>2. "both" \in Periods
      BY DEF Periods
    <3> QED
      BY <3>1, <3>2, Zenon DEF CategoryRow
  <2> HIDE DEF value
  <2>4. base \in CategoryRow
    BY <2>3 DEF ShopOK, RowsOK
  <2> HIDE DEF base
  <2>5. id \in Nat \ {0}
    <3>1. NewId \in Nat \ {0}
      BY CatalogueAssumption DEF NewId, CountersOK
    <3> QED
      BY <3>1 DEF ShopOK, RowsOK
  <2>6. form' = [kind |-> "category", id |-> id, value |-> value,
                 base |-> base]
    BY <2>1 DEF value, base
  <2>7. FormOK'
    BY <2>3, <2>4, <2>5, <2>6 DEF FormOK
  <2> QED
    BY <1>1, <2>7, ShopWithoutCommit
<1>3. CASE SendProduct
  <2>1. PICK p \in products, cat \in DOMAIN cats :
          form' = [kind |-> "product", id |-> p.id, base |-> p,
                   value |-> [p EXCEPT !.cat = cat, !.via = "form"]]
    BY <1>3 DEF SendProduct
  <2> DEFINE value == [p EXCEPT !.cat = cat, !.via = "form"]
  <2>2. p \in Product /\ cat \in Nat
    BY DEF ShopOK, ProductsOK, RowsOK
  <2>3. /\ value \in Product /\ value.id = p.id /\ value.name = p.name
        /\ value.batch = p.batch /\ value.via = "form"
    BY <2>2 DEF Product
  <2> HIDE DEF value
  <2>4. form' = [kind |-> "product", id |-> p.id, base |-> p,
                 value |-> value]
    BY <2>1 DEF value
  <2>5. FormOK'
    BY <2>2, <2>3, <2>4 DEF FormOK
  <2> QED
    BY <1>1, <2>5, ShopWithoutCommit
<1>4. CASE SendDeletion
  <2>1. form'.kind \in {"no category", "no product"}
    <3>1. ASSUME NEW id, form' = [kind |-> "no category", id |-> id]
          PROVE  form'.kind = "no category"
      BY <3>1
    <3>2. ASSUME NEW id, form' = [kind |-> "no product", id |-> id]
          PROVE  form'.kind = "no product"
      BY <3>2
    <3> QED
      BY <1>4, <3>1, <3>2 DEF SendDeletion
  <2>2. FormOK'
    BY <2>1 DEF FormOK
  <2> QED
    BY <1>1, <2>2, ShopWithoutCommit
<1>5. CASE FormFails
  <2>1. FormOK'
    BY <1>5 DEF FormFails, FormOK, NoForm
  <2> QED
    BY <1>1, <2>1, ShopWithoutCommit
<1> QED
  BY <1>2, <1>3, <1>4, <1>5

\* A commit that leaves categories and products alone.
LEMMA ProductsKept ==
    ASSUME ShopOK, CountersOK, edits' = edits + 1, UNCHANGED <<cats, products>>
    PROVE  RowsOK' /\ ProductsOK' /\ NamesOK'
<1>1. \A p \in products : p.id < NewId'
  BY IdsGrow DEF ShopOK, ProductsOK, Product
<1> QED
  BY <1>1 DEF ShopOK, RowsOK, ProductsOK, NamesOK

LEMMA RulesKept ==
    ASSUME ShopOK, CountersOK, edits' = edits + 1, UNCHANGED rules
    PROVE  RulesOK'
<1>1. \A r \in rules : r.id < NewId'
  BY IdsGrow DEF ShopOK, RulesOK, Rules
<1> QED
  BY <1>1 DEF ShopOK, RulesOK

\* A commit that rewrites products without touching id, name and batch,
\* and makes no product one of import-csv.
LEMMA ProductsRewritten ==
    ASSUME ShopOK, CountersOK, edits' = edits + 1, NEW f,
           \A p \in products :
              /\ f[p] \in Product /\ f[p].cat \in DOMAIN cats'
              /\ f[p].id = p.id /\ f[p].name = p.name
              /\ f[p].batch = p.batch
              /\ f[p].via = "api" => p.via = "api",
           products' = {f[p] : p \in products}
    PROVE  ProductsOK' /\ NamesOK'
<1>1. ASSUME NEW q \in products'
      PROVE  \E p \in products :
                /\ q = f[p] /\ q.id = p.id /\ q.name = p.name
                /\ q.batch = p.batch /\ (q.via = "api" => p.via = "api")
                /\ q \in Product /\ q.cat \in DOMAIN cats'
  OBVIOUS
<1>2. \A p \in products : p.id \in Nat /\ p.id < NewId'
  BY IdsGrow DEF ShopOK, ProductsOK, Product
<1>3. ProductsOK'
  <2>1. ASSUME NEW p \in products', NEW q \in products', p.id = q.id
        PROVE  p = q
    BY <1>1, <2>1 DEF ShopOK, ProductsOK
  <2> QED
    BY <1>1, <1>2, <2>1 DEF ProductsOK
<1>4. NamesOK'
  <2>1. ASSUME NEW p \in products', NEW q \in products',
               p.id < q.id, p.name = q.name, q.via = "api"
        PROVE  p.batch = q.batch
    BY <1>1, <2>1 DEF ShopOK, NamesOK
  <2> QED
    BY <2>1 DEF NamesOK
<1> QED
  BY <1>3, <1>4

LEMMA CategoryCommitted ==
    ASSUME ShopOK, CountersOK, CommitCategory PROVE ShopOK'
<1>1. /\ form.kind = "category" /\ form.id \in DOMAIN cats \cup {NewId}
      /\ form.value.parent \in DOMAIN cats \cup {0}
      /\ form' = NoForm /\ edits' = edits + 1
      /\ UNCHANGED <<products, rules>>
  BY DEF CommitCategory, CommitOnly, Commit
<1> DEFINE new == [c \in DOMAIN cats \cup {form.id} |->
                     IF c # form.id THEN cats[c]
                     ELSE IF c \in DOMAIN cats THEN Changed(cats[c])
                     ELSE form.value]
<1>2. cats' = new
  BY DEF CommitCategory
<1>3. /\ form.value \in CategoryRow /\ form.id \in Nat \ {0}
  BY <1>1 DEF ShopOK, FormOK
<1>4. ASSUME NEW row \in CategoryRow
      PROVE  /\ Changed(row) \in CategoryRow
             /\ Changed(row).parent \in {form.value.parent, row.parent}
  <2>1. /\ DOMAIN row = {"parent", "on", "period"}
        /\ row = [parent |-> row.parent, on |-> row.on, period |-> row.period]
        /\ row.parent \in Nat /\ row.on \in BOOLEAN /\ row.period \in Periods
    BY DEF CategoryRow
  <2>2. /\ form.value.parent \in Nat /\ form.value.on \in BOOLEAN
        /\ form.value.period \in Periods
    BY <1>3 DEF CategoryRow
  <2> DEFINE col(f) == IF form.value[f] # form.base[f] THEN form.value[f]
                       ELSE row[f]
  <2>3. Changed(row) = [f \in {"parent", "on", "period"} |-> col(f)]
    BY <2>1 DEF Changed
  <2>4. /\ col("parent") \in Nat /\ col("on") \in BOOLEAN
        /\ col("period") \in Periods
        /\ col("parent") \in {form.value.parent, row.parent}
    BY <2>1, <2>2
  <2> HIDE DEF col
  <2>5. Changed(row) = [parent |-> col("parent"), on |-> col("on"),
                        period |-> col("period")]
    BY <2>3
  <2> QED
    BY <2>4, <2>5 DEF CategoryRow
<1>5. /\ DOMAIN new = DOMAIN cats \cup {form.id}
      /\ \A c \in DOMAIN new : new[c] \in CategoryRow
      /\ \A c \in DOMAIN new : new[c].parent \in DOMAIN new \cup {0}
  BY <1>1, <1>3, <1>4 DEF ShopOK, RowsOK
<1> HIDE DEF new
<1>6. RowsOK'
  <2>1. cats' = [c \in DOMAIN new |-> new[c]]
    BY <1>2 DEF new
  <2>2. DOMAIN new \subseteq Nat \ {0}
    BY <1>3, <1>5 DEF ShopOK, RowsOK
  <2> QED
    BY <1>2, <1>5, <2>1, <2>2 DEF RowsOK
<1>7. ProductsOK' /\ NamesOK'
  <2>1. \A p \in products : p.id < NewId'
    BY <1>1, IdsGrow DEF ShopOK, ProductsOK, Product
  <2> QED
    BY <1>1, <1>2, <1>5, <2>1 DEF ShopOK, ProductsOK, NamesOK
<1>8. FormOK'
  BY <1>1 DEF FormOK, NoForm
<1> QED
  BY <1>1, <1>6, <1>7, <1>8, RulesKept DEF ShopOK

LEMMA ProductCommitted ==
    ASSUME ShopOK, CountersOK, CommitProduct PROVE ShopOK'
<1>1. /\ form.kind = "product" /\ form.value.cat \in DOMAIN cats
      /\ form' = NoForm /\ edits' = edits + 1 /\ UNCHANGED <<cats, rules>>
  BY DEF CommitProduct, CommitOnly, Commit
<1>2. PICK s \in products :
        /\ s.id = form.id /\ products' = (products \ {s}) \cup {Changed(s)}
  BY DEF CommitProduct
<1>3. /\ form.value \in Product /\ form.base \in Product
      /\ form.value.id = form.base.id /\ form.value.name = form.base.name
      /\ form.value.batch = form.base.batch /\ form.value.via = "form"
  BY <1>1 DEF ShopOK, FormOK
<1>4. s \in Product /\ s.cat \in DOMAIN cats
  BY DEF ShopOK, ProductsOK
<1> DEFINE col(g) == IF form.value[g] # form.base[g] THEN form.value[g]
                     ELSE s[g]
<1>5. Changed(s) = [id |-> s.id, name |-> s.name, cat |-> col("cat"),
                    on |-> col("on"), period |-> col("period"),
                    via |-> col("via"), batch |-> s.batch]
  <2>1. DOMAIN s = {"id", "name", "cat", "on", "period", "via", "batch"}
    BY <1>4 DEF Product
  <2>2. Changed(s) = [g \in DOMAIN s |-> col(g)]
    BY DEF Changed
  <2>3. col("id") = s.id /\ col("name") = s.name /\ col("batch") = s.batch
    BY <1>3
  <2> HIDE DEF col
  <2> QED
    BY <2>1, <2>2, <2>3
<1>6. /\ col("cat") \in DOMAIN cats /\ col("cat") \in Nat
      /\ col("on") \in BOOLEAN
      /\ col("period") \in Periods
      /\ col("via") \in {"form", "api", "admin"}
      /\ col("via") = "api" => s.via = "api"
  BY <1>1, <1>3, <1>4 DEF Product
<1> HIDE DEF col
<1> DEFINE f == [p \in products |-> IF p = s THEN Changed(s) ELSE p]
<1>7. /\ Changed(s) \in Product /\ Changed(s).cat \in DOMAIN cats
      /\ Changed(s).id = s.id /\ Changed(s).name = s.name
      /\ Changed(s).batch = s.batch
      /\ Changed(s).via = "api" => s.via = "api"
  BY <1>4, <1>5, <1>6 DEF Product
<1>8. products' = {f[p] : p \in products}
  BY <1>2
<1>9. \A p \in products :
        /\ f[p] \in Product /\ f[p].cat \in DOMAIN cats'
        /\ f[p].id = p.id /\ f[p].name = p.name /\ f[p].batch = p.batch
        /\ f[p].via = "api" => p.via = "api"
  BY <1>1, <1>7 DEF ShopOK, ProductsOK
<1> HIDE DEF f
<1>10. ProductsOK' /\ NamesOK'
  BY <1>1, <1>8, <1>9, ProductsRewritten
<1>11. RowsOK' /\ FormOK'
  BY <1>1 DEF ShopOK, RowsOK, FormOK, NoForm
<1> QED
  BY <1>1, <1>10, <1>11, RulesKept DEF ShopOK

LEMMA DeletionCommitted ==
    ASSUME ShopOK, CountersOK, CommitDeletion PROVE ShopOK'
<1>1. form' = NoForm /\ edits' = edits + 1 /\ UNCHANGED rules
  BY DEF CommitDeletion, CommitOnly, Commit
<1>2. FormOK' /\ RulesOK'
  BY <1>1, RulesKept DEF FormOK, NoForm
<1>3. \A p \in products : p.id < NewId'
  BY <1>1, IdsGrow DEF ShopOK, ProductsOK, Product
<1>4. CASE /\ \A p \in products : p.cat # form.id
           /\ cats' = [c \in DOMAIN cats \ {form.id} |->
                         IF cats[c].parent = form.id
                         THEN [cats[c] EXCEPT !.parent = 0] ELSE cats[c]]
           /\ UNCHANGED products
  <2>1. DOMAIN cats' = DOMAIN cats \ {form.id}
    BY <1>4
  <2>2. ASSUME NEW c \in DOMAIN cats'
        PROVE  /\ cats'[c] \in CategoryRow
               /\ cats'[c].parent \in DOMAIN cats' \cup {0}
    <3>1. /\ cats[c] \in CategoryRow /\ c \in DOMAIN cats \ {form.id}
          /\ cats[c].parent \in DOMAIN cats \cup {0}
      BY <2>1 DEF ShopOK, RowsOK
    <3>2. CASE cats[c].parent = form.id
      <4>1. cats'[c] = [cats[c] EXCEPT !.parent = 0]
        BY <1>4, <3>1, <3>2
      <4>2. [cats[c] EXCEPT !.parent = 0] \in CategoryRow
        BY <3>1 DEF CategoryRow
      <4>3. [cats[c] EXCEPT !.parent = 0].parent = 0
        BY <3>1 DEF CategoryRow
      <4> QED
        BY <4>1, <4>2, <4>3
    <3>3. CASE cats[c].parent # form.id
      <4>1. cats'[c] = cats[c]
        BY <1>4, <3>1, <3>3
      <4> QED
        BY <2>1, <3>1, <3>3, <4>1
    <3> QED
      BY <3>2, <3>3
  <2>3. cats' \in [DOMAIN cats' -> CategoryRow]
    <3>1. cats' = [c \in DOMAIN cats' |-> cats'[c]]
      BY <1>4
    <3> QED
      BY <2>2, <3>1
  <2>4. RowsOK'
    BY <2>1, <2>2, <2>3 DEF ShopOK, RowsOK
  <2>5. ProductsOK' /\ NamesOK'
    BY <1>3, <1>4, <2>1 DEF ShopOK, ProductsOK, NamesOK
  <2> QED
    BY <1>2, <2>4, <2>5 DEF ShopOK
<1>5. CASE /\ products' = {p \in products : p.id # form.id}
           /\ UNCHANGED cats
  <2>1. RowsOK' /\ ProductsOK' /\ NamesOK'
    BY <1>3, <1>5 DEF ShopOK, RowsOK, ProductsOK, NamesOK
  <2> QED
    BY <1>2, <2>1 DEF ShopOK
<1> QED
  BY <1>4, <1>5 DEF CommitDeletion

\* The edits of products that are there: the buttons and the bulk actions.
LEMMA ProductEdited ==
    ASSUME ShopOK, CountersOK,
           ToggleActive \/ BulkActivate \/ BulkDeactivate \/ BulkMove
    PROVE  ShopOK'
<1>1. edits' = edits + 1 /\ UNCHANGED <<cats, rules, form>>
  BY DEF ToggleActive, BulkActivate, BulkDeactivate, SetActive, BulkMove,
         CommitAndClear, Commit
<1>2. RowsOK' /\ RulesOK' /\ FormOK'
  BY <1>1, RulesKept DEF ShopOK, RowsOK, FormOK
<1>3. ASSUME NEW pks, NEW on \in BOOLEAN, SetActive(pks, on)
      PROVE  ProductsOK' /\ NamesOK'
  <2> DEFINE f == [p \in products |->
                     IF p.id \in pks THEN [p EXCEPT !.on = on] ELSE p]
  <2>1. products' = {f[p] : p \in products}
    BY <1>3 DEF SetActive
  <2>2. ASSUME NEW p \in products
        PROVE  /\ f[p] \in Product /\ f[p].cat \in DOMAIN cats'
               /\ f[p].id = p.id /\ f[p].name = p.name
               /\ f[p].batch = p.batch /\ f[p].via = p.via
    <3>1. p \in Product /\ p.cat \in DOMAIN cats'
      BY <1>1 DEF ShopOK, ProductsOK
    <3> QED
      BY <3>1 DEF Product
  <2> HIDE DEF f
  <2> QED
    BY <1>1, <2>1, <2>2, ProductsRewritten
<1>4. CASE BulkMove
  <2>1. PICK pks \in Selections, cat \in DOMAIN cats :
          products' = {IF p.id \in pks THEN [p EXCEPT !.cat = cat] ELSE p :
                          p \in products}
    BY <1>4 DEF BulkMove
  <2> DEFINE f == [p \in products |->
                     IF p.id \in pks THEN [p EXCEPT !.cat = cat] ELSE p]
  <2>2. products' = {f[p] : p \in products}
    BY <2>1
  <2>3. ASSUME NEW p \in products
        PROVE  /\ f[p] \in Product /\ f[p].cat \in DOMAIN cats'
               /\ f[p].id = p.id /\ f[p].name = p.name
               /\ f[p].batch = p.batch /\ f[p].via = p.via
    <3>1. /\ p \in Product /\ p.cat \in DOMAIN cats'
          /\ cat \in Nat /\ cat \in DOMAIN cats'
      BY <1>1 DEF ShopOK, ProductsOK, RowsOK
    <3> QED
      BY <3>1 DEF Product
  <2> HIDE DEF f
  <2>4. ProductsOK' /\ NamesOK'
    BY <1>1, <2>2, <2>3, ProductsRewritten
  <2> QED
    BY <1>2, <2>4 DEF ShopOK
<1>5. CASE ToggleActive \/ BulkActivate \/ BulkDeactivate
  <2>1. ProductsOK' /\ NamesOK'
    BY <1>3, <1>5 DEF ToggleActive, BulkActivate, BulkDeactivate
  <2> QED
    BY <1>2, <2>1 DEF ShopOK
<1> QED
  BY <1>4, <1>5

LEMMA SeqElement ==
    ASSUME NEW S, NEW s \in Seq(S), NEW i \in 1 .. Len(s) PROVE s[i] \in S
OBVIOUS

\* The products of a file: fresh ids, one batch.
LEMMA FileTypes ==
    ASSUME CountersOK, NEW file \in Files, NEW default \in Nat,
           NEW created \in SUBSET (1 .. Len(file)),
           NEW via \in {"api", "admin"}
    PROVE  \A p \in NewProducts(file, created, default, via) :
              /\ p \in Product /\ p.id > NewId /\ p.id < NewId + 10
              /\ p.via = via /\ p.batch = edits + 1
              /\ \E i \in created : p.id = NewId + i /\ p.name = file[i].name
<1>1. /\ NewId \in Nat /\ edits + 1 \in Nat
  BY CatalogueAssumption DEF NewId, CountersOK
<1>2. file \in Seq([name : STRING, cat : Nat]) /\ Len(file) < 10
  BY CatalogueAssumption
<1>3. ASSUME NEW i \in created
      PROVE  /\ i \in Nat /\ i > 0 /\ i < 10
             /\ file[i].name \in STRING
             /\ RowCategory(file[i], default) \in Nat
  <2>1. i \in 1 .. Len(file)
    OBVIOUS
  <2>2. file[i] \in [name : STRING, cat : Nat]
    BY <1>2, <2>1, SeqElement, Zenon
  <2>3. file[i].name \in STRING /\ file[i].cat \in Nat
    BY <2>2
  <2>4. i \in Nat /\ i > 0 /\ i < 10
    BY <1>2, <2>1
  <2> QED
    BY <2>3, <2>4 DEF RowCategory
<1> DEFINE product(i) ==
             [id |-> NewId + i, name |-> file[i].name,
              cat |-> RowCategory(file[i], default), on |-> TRUE,
              period |-> "none", via |-> via, batch |-> edits + 1]
<1>4. ASSUME NEW i \in created
      PROVE  /\ product(i) \in Product
             /\ product(i).id = NewId + i /\ product(i).name = file[i].name
             /\ product(i).via = via /\ product(i).batch = edits + 1
  BY <1>1, <1>3 DEF Product, Periods
<1> HIDE DEF product
<1>5. NewProducts(file, created, default, via)
         = {product(i) : i \in created}
  BY DEF NewProducts, product
<1> QED
  BY <1>1, <1>3, <1>4, <1>5

LEMMA FileIdsUnique ==
    ASSUME CountersOK, NEW file \in Files, NEW default,
           NEW created \in SUBSET (1 .. Len(file)), NEW via,
           NEW p \in NewProducts(file, created, default, via),
           NEW q \in NewProducts(file, created, default, via),
           p.id = q.id
    PROVE  p = q
<1>1. NewId \in Nat
  BY CatalogueAssumption DEF NewId, CountersOK
<1>2. created \subseteq Nat
  BY CatalogueAssumption
<1> DEFINE product(i) ==
             [id |-> NewId + i, name |-> file[i].name,
              cat |-> RowCategory(file[i], default), on |-> TRUE,
              period |-> "none", via |-> via, batch |-> edits + 1]
<1>3. \A i \in created : product(i).id = NewId + i
  OBVIOUS
<1> HIDE DEF product
<1>4. PICK i \in created, j \in created : p = product(i) /\ q = product(j)
  BY DEF NewProducts, product
<1>5. i \in Nat /\ j \in Nat /\ NewId + i = NewId + j
  BY <1>2, <1>3, <1>4
<1> QED
  BY <1>1, <1>4, <1>5

LEMMA FileImported ==
    ASSUME ShopOK, CountersOK, edits' = edits + 1,
           UNCHANGED <<cats, rules, form>>,
           NEW file \in Files, NEW default \in Nat,
           NEW created \in SUBSET (1 .. Len(file)),
           NEW via \in {"api", "admin"},
           \A p \in NewProducts(file, created, default, via) :
              p.cat \in DOMAIN cats,
           products' = products \cup NewProducts(file, created, default, via),
           via = "api" => \A i \in created : \A p \in products :
                            p.name # file[i].name
    PROVE  ShopOK'
<1> DEFINE new == NewProducts(file, created, default, via)
<1>1. /\ \A p \in products :
           p \in Product /\ p.id \in Nat /\ p.id < NewId /\ p.id < NewId'
      /\ NewId \in Nat /\ NewId' = NewId + 10
  BY IdsGrow DEF ShopOK, ProductsOK, Product
<1>2. \A p \in new :
         /\ p \in Product /\ p.id \in Nat /\ p.id > NewId /\ p.id < NewId'
         /\ p.via = via /\ p.batch = edits + 1
         /\ \E i \in created : p.name = file[i].name
  BY <1>1, FileTypes DEF Product
<1>3. \A p, q \in new : p.id = q.id => p = q
  BY FileIdsUnique
<1> HIDE DEF new
<1>4. ProductsOK'
  <2>1. products' = products \cup new /\ \A p \in new : p.cat \in DOMAIN cats
    BY DEF new
  <2>2. ASSUME NEW p \in products', NEW q \in products', p.id = q.id
        PROVE  p = q
    BY <1>1, <1>2, <1>3, <2>1, <2>2 DEF ShopOK, ProductsOK
  <2> QED
    BY <1>1, <1>2, <2>1, <2>2 DEF ShopOK, ProductsOK
<1>5. NamesOK'
  <2> SUFFICES ASSUME NEW p \in products', NEW q \in products',
                      p.id < q.id, p.name = q.name, q.via = "api"
               PROVE  p.batch = q.batch
    BY DEF NamesOK
  <2>1. products' = products \cup new
    BY DEF new
  <2>2. CASE p \in products /\ q \in products
    BY <2>2 DEF ShopOK, NamesOK
  <2>3. CASE p \in new /\ q \in new
    BY <1>2, <2>3
  <2>4. CASE p \in new /\ q \in products
    BY <1>1, <1>2, <2>4
  <2>5. CASE p \in products /\ q \in new
    <3>1. via = "api" /\ \E i \in created : q.name = file[i].name
      BY <1>2, <2>5
    <3> QED
      BY <2>5, <3>1
  <2> QED
    BY <2>1, <2>2, <2>3, <2>4, <2>5
<1>6. RowsOK' /\ FormOK'
  BY DEF ShopOK, RowsOK, FormOK
<1> QED
  BY <1>4, <1>5, <1>6, RulesKept DEF ShopOK

LEMMA Imported ==
    ASSUME ShopOK, CountersOK, ImportApi \/ ImportAdmin PROVE ShopOK'
<1>1. edits' = edits + 1 /\ UNCHANGED <<cats, rules, form>>
  BY DEF ImportApi, ImportAdmin, CommitAndClear, CommitOnly, Commit
<1>2. Defaults \subseteq Nat
  BY CatalogueAssumption
<1>3. CASE ImportApi
  <2>1. PICK file \in Files, default \in {0} \cup (Defaults \cap DOMAIN cats) :
          LET new == NewProducts(file, CreatedByApi(file, default), default,
                                 "api")
          IN  /\ \A p \in new : p.cat \in DOMAIN cats
              /\ products' = products \cup new
    BY <1>3 DEF ImportApi
  <2>2. default \in Nat
    BY <1>2
  <2>3. CreatedByApi(file, default) \in SUBSET (1 .. Len(file))
    BY DEF CreatedByApi
  <2>4. \A i \in CreatedByApi(file, default) : \A p \in products :
           p.name # file[i].name
    BY DEF CreatedByApi
  <2> QED
    BY <1>1, <2>1, <2>2, <2>3, <2>4, FileImported
<1>4. CASE ImportAdmin
  <2>1. PICK file \in Files, default \in Defaults, skip \in BOOLEAN :
          LET good == {i \in 1 .. Len(file) :
                          /\ file[i].name # ""
                          /\ RowCategory(file[i], default) # 0}
              new  == NewProducts(file, good, default, "admin")
          IN  /\ skip \/ good = 1 .. Len(file)
              /\ \A p \in new : p.cat \in DOMAIN cats
              /\ products' = products \cup new
    BY <1>4 DEF ImportAdmin
  <2> DEFINE good == {i \in 1 .. Len(file) :
                         /\ file[i].name # ""
                         /\ RowCategory(file[i], default) # 0}
  <2>2. good \in SUBSET (1 .. Len(file)) /\ default \in Nat
    BY <1>2
  <2>3. /\ \A p \in NewProducts(file, good, default, "admin") :
              p.cat \in DOMAIN cats
        /\ products' = products
                         \cup NewProducts(file, good, default, "admin")
    BY <2>1
  <2> HIDE DEF good
  <2> QED
    BY <1>1, <2>2, <2>3, FileImported
<1> QED
  BY <1>3, <1>4

LEMMA RuleEdited ==
    ASSUME ShopOK, CountersOK,
           SaveRule \/ DeleteRule \/ ChangeDaypart \/ ChangeMethods
    PROVE  ShopOK'
<1>1. edits' = edits + 1 /\ UNCHANGED <<cats, products, form>>
  BY DEF SaveRule, DeleteRule, ChangeDaypart, ChangeMethods, CommitOnly,
         Commit
<1>2. /\ \A r \in rules : r \in Rules /\ r.id \in Nat /\ r.id < NewId'
      /\ NewId \in Nat /\ NewId < NewId'
  BY <1>1, IdsGrow DEF ShopOK, RulesOK, Rules
<1>3. ASSUME NEW s \in Rules, s.id < NewId',
             NEW kept \in SUBSET {r \in rules : r.id # s.id},
             rules' = kept \cup {s}
      PROVE  RulesOK'
  BY <1>2, <1>3 DEF ShopOK, RulesOK
<1>4. ASSUME SaveRule PROVE RulesOK'
  <2>1. PICK value \in RuleForms, id \in {r.id : r \in rules} \cup {NewId} :
          rules' = {r \in rules : r.id # id} \cup {[value EXCEPT !.id = id]}
    BY <1>4 DEF SaveRule
  <2>2. value \in Rules /\ id \in Nat /\ id < NewId'
    BY <1>2, CatalogueAssumption
  <2> DEFINE s == [value EXCEPT !.id = id]
  <2>3. s \in Rules /\ s.id = id
    BY <2>2 DEF Rules
  <2> HIDE DEF s
  <2>4. rules' = {r \in rules : r.id # s.id} \cup {s}
    BY <2>1, <2>3 DEF s
  <2> QED
    BY <1>3, <2>2, <2>3, <2>4
<1>5. ASSUME DeleteRule PROVE RulesOK'
  BY <1>2, <1>5 DEF DeleteRule, ShopOK, RulesOK
<1>6. ASSUME NEW r \in rules, NEW s \in Rules, s.id = r.id,
             rules' = (rules \ {r}) \cup {s}
      PROVE  RulesOK'
  <2>1. rules \ {r} \in SUBSET {t \in rules : t.id # s.id}
    BY <1>6 DEF ShopOK, RulesOK
  <2> QED
    BY <1>2, <1>3, <1>6, <2>1
<1>7. ASSUME ChangeDaypart PROVE RulesOK'
  <2>1. PICK r \in rules, daypart \in Dayparts :
          rules' = (rules \ {r}) \cup {[r EXCEPT !.daypart = daypart]}
    BY <1>7 DEF ChangeDaypart
  <2> DEFINE s == [r EXCEPT !.daypart = daypart]
  <2>2. s \in Rules /\ s.id = r.id
    BY <1>2 DEF Rules
  <2> HIDE DEF s
  <2>3. rules' = (rules \ {r}) \cup {s}
    BY <2>1 DEF s
  <2> QED
    BY <1>6, <2>2, <2>3
<1>8. ASSUME ChangeMethods PROVE RulesOK'
  <2>1. PICK r \in rules, methods \in (SUBSET Methods) \ {{}} :
          rules' = (rules \ {r}) \cup {[r EXCEPT !.methods = methods]}
    BY <1>8 DEF ChangeMethods
  <2> DEFINE s == [r EXCEPT !.methods = methods]
  <2>2. s \in Rules /\ s.id = r.id
    BY <1>2 DEF Rules
  <2> HIDE DEF s
  <2>3. rules' = (rules \ {r}) \cup {s}
    BY <2>1 DEF s
  <2> QED
    BY <1>6, <2>2, <2>3
<1>9. FormOK'
  BY <1>1 DEF ShopOK, FormOK
<1> QED
  BY <1>1, <1>4, <1>5, <1>7, <1>8, <1>9, ProductsKept DEF ShopOK

LEMMA ShopStep ==
    ASSUME ShopOK, CountersOK, [Next]_vars PROVE ShopOK'
<1>1. CASE \/ UNCHANGED vars \/ ClockTicks \/ OrderPlaced \/ OrderCancelled
           \/ OpenIndex
  <2>1. UNCHANGED <<cats, products, rules, edits, form>>
    BY <1>1 DEF vars, ClockTicks, OrderPlaced, OrderCancelled, OpenIndex,
                shopVars
  <2>2. FormOK'
    BY <2>1 DEF ShopOK, FormOK
  <2> QED
    BY <2>1, <2>2, ShopWithoutCommit
<1>2. CASE FormStep
  BY <1>2, FormSteps, CategoryCommitted, ProductCommitted, DeletionCommitted
     DEF FormStep
<1>3. CASE EditConfig
  <2>1. edits' = edits + 1 /\ UNCHANGED <<cats, products, rules, form>>
    BY <1>3 DEF EditConfig, CommitOnly, Commit, shopVars
  <2>2. FormOK'
    BY <2>1 DEF ShopOK, FormOK
  <2> QED
    BY <2>1, <2>2, ProductsKept, RulesKept DEF ShopOK
<1>4. CASE Edit
  BY <1>3, <1>4, ProductEdited, Imported, RuleEdited DEF Edit
<1> QED
  BY <1>1, <1>2, <1>4 DEF Next

LEMMA ShopHolds == Spec => []ShopOK
<1>1. ShopOK /\ CountersOK /\ [Next]_vars => ShopOK'
  BY ShopStep
<1> QED
  BY <1>1, ShopInit, CountersHold, PTL DEF Spec

\* The keys of the database hold: whatever forms, imports and deletions do,
\* every product has its category, every parent exists, ids are unique.
THEOREM CatalogueTypeCorrect == Spec => []TypeOK
<1>1. ShopOK /\ CountersOK /\ SlotTypeOK => TypeOK
  <2> SUFFICES ASSUME ShopOK, CountersOK, SlotTypeOK PROVE TypeOK
    OBVIOUS
  <2>1. \A row \in CategoryRow : row.on \in BOOLEAN
    BY Zenon DEF CategoryRow
  <2>2. \A c \in DOMAIN cats : /\ cats[c].parent \in DOMAIN cats \cup {0}
                               /\ cats[c].on \in BOOLEAN
    BY <2>1 DEF ShopOK, RowsOK
  <2> QED
    BY <2>2, Zenon DEF TypeOK, ShopOK, ProductsOK, RulesOK, CountersOK
<1> QED
  BY <1>1, ShopHolds, CountersHold, BoardIsImplemented, SlotTypeCorrect, PTL

\* import-csv never makes a product of a name that is taken, whoever else
\* edits products and imports files: two of one name come from one file.
THEOREM DuplicatesFromOneFile == Spec => []DuplicatesComeFromOneFile
<1>1. ShopOK => DuplicatesComeFromOneFile
  BY DEF ShopOK, NamesOK, DuplicatesComeFromOneFile
<1> QED
  BY <1>1, ShopHolds, PTL

----------------------------------------------------------------------------
(* Induction.                                                              *)

\* A set of numbers that is not empty has a least one: what stands for
\* induction over numbers, as the least number for which something fails.
LEMMA LeastNumber ==
    ASSUME NEW S, S \subseteq Nat, S # {}
    PROVE  \E n \in S : \A m \in S : n <= m
<1>1. PICK n \in S : \A m \in S : <<m, n>> \notin OpToRel(<, Nat)
  BY WFMin, NatLessThanWellFounded, Zenon
<1>2. \A m \in S : ~(m < n)
  BY <1>1, Zenon DEF OpToRel
<1> QED
  BY <1>2

\* first, next of first, and so on, n times: a recursive function over 0 .. n
\* is the one its equation describes because there is such a function.
Iterates(X, first, next, n) ==
    {g \in [0 .. n -> X] :
        g[0] = first /\ \A i \in 1 .. n : g[i] = next[g[i - 1]]}

LEMMA IteratesExist ==
    ASSUME NEW X, NEW first \in X, NEW next \in [X -> X], NEW n \in Nat
    PROVE  Iterates(X, first, next, n) # {}
<1> DEFINE Missing == {k \in Nat : Iterates(X, first, next, k) = {}}
<1> SUFFICES ASSUME Missing # {} PROVE FALSE
  OBVIOUS
<1>1. PICK k \in Missing : \A m \in Missing : k <= m
  BY LeastNumber
<1>2. CASE k = 0
  <2>1. [i \in 0 .. 0 |-> first] \in [0 .. 0 -> X]
    OBVIOUS
  <2>2. [i \in 0 .. 0 |-> first][0] = first /\ 1 .. 0 = {}
    OBVIOUS
  <2>3. Iterates(X, first, next, 0) # {}
    BY <2>1, <2>2 DEF Iterates
  <2> QED
    BY <1>2, <2>3
<1>3. CASE k > 0
  <2>1. k - 1 \in Nat /\ Iterates(X, first, next, k - 1) # {}
    BY <1>1, <1>3
  <2>2. PICK g \in [0 .. k - 1 -> X] :
          g[0] = first /\ \A i \in 1 .. k - 1 : g[i] = next[g[i - 1]]
    BY <2>1 DEF Iterates
  <2> DEFINE h == [i \in 0 .. k |-> IF i = k THEN next[g[k - 1]] ELSE g[i]]
  <2>3. h \in [0 .. k -> X]
    BY <1>3, <2>1, <2>2
  <2>4. h[0] = first
    BY <1>3, <2>1, <2>2
  <2>5. ASSUME NEW i \in 1 .. k PROVE h[i] = next[h[i - 1]]
    BY <1>3, <2>1, <2>2
  <2> HIDE DEF h
  <2>6. h \in Iterates(X, first, next, k)
    BY <2>3, <2>4, <2>5 DEF Iterates
  <2> QED
    BY <2>6
<1> QED
  BY <1>2, <1>3

\* A finite set of integers that is not empty has a largest one.
LEMMA LargestInteger ==
    ASSUME NEW S, S \subseteq Int, IsFiniteSet(S), S # {}
    PROVE  \E m \in S : \A x \in S : x <= m
<1> DEFINE Unbounded == {T \in SUBSET S :
                           T # {} /\ ~\E m \in T : \A x \in T : x <= m}
<1> SUFFICES ASSUME Unbounded # {} PROVE FALSE
  OBVIOUS
<1>1. PICK T \in Unbounded :
        \A U \in Unbounded : <<U, T>> \notin StrictSubsetOrdering(S)
  <2>1. IsWellFoundedOn(StrictSubsetOrdering(S), FiniteSubsetsOf(S))
    BY FS_StrictSubsetOrderingWellFounded
  <2>2. Unbounded \subseteq FiniteSubsetsOf(S)
    BY FS_Subset DEF FiniteSubsetsOf
  <2> HIDE DEF Unbounded
  <2> QED
    BY <2>1, <2>2, WFMin, Zenon
<1>2. PICK t \in T : TRUE
  OBVIOUS
<1> DEFINE U == T \ {t}
<1>3. U \notin Unbounded
  <2>1. U \subseteq S /\ T \subseteq S /\ U \subseteq T /\ U # T
    OBVIOUS
  <2>2. <<U, T>> \in StrictSubsetOrdering(S)
    BY <2>1 DEF StrictSubsetOrdering
  <2> QED
    BY <1>1, <2>2
<1>4. CASE U = {}
  <2>1. \A x \in T : x <= t
    BY <1>4
  <2> QED
    BY <2>1
<1>5. CASE U # {}
  <2>1. PICK m \in U : \A x \in U : x <= m
    BY <1>3, <1>5
  <2>2. CASE t <= m
    <3>1. m \in T /\ \A x \in T : x <= m
      BY <2>1, <2>2
    <3> QED
      BY <3>1
  <2>3. CASE ~(t <= m)
    <3>1. \A x \in T : x <= t
      BY <2>1, <2>3
    <3> QED
      BY <3>1
  <2> QED
    BY <2>2, <2>3
<1> QED
  BY <1>4, <1>5

\* What a function makes of a finite set is finite.
LEMMA FiniteImage ==
    ASSUME NEW S, IsFiniteSet(S), NEW f
    PROVE  IsFiniteSet({f[x] : x \in S})
<1> DEFINE g == [x \in S |-> f[x]]
           T == {f[x] : x \in S}
<1>1. g \in [S -> T] /\ \A y \in T : \E x \in S : g[x] = y
  OBVIOUS
<1> HIDE DEF g, T
<1>2. g \in Surjection(S, T)
  BY <1>1 DEF Surjection
<1>3. IsFiniteSet(T)
  BY <1>2, FS_Surjection, Zenon
<1> QED
  BY <1>3 DEF T

----------------------------------------------------------------------------
(* The category tree.                                                      *)

\* The recursion equation of Level.
LEMMA LevelIsDefined ==
    ASSUME IsFiniteSet(DOMAIN cats)
    PROVE  /\ Cardinality(DOMAIN cats) \in Nat
           /\ Level[0] = Roots
           /\ \A n \in 1 .. Cardinality(DOMAIN cats) :
                 Level[n] = ActiveChildren(Level[n - 1])
<1> DEFINE N == Cardinality(DOMAIN cats)
           X == SUBSET DOMAIN cats
           next == [S \in X |-> ActiveChildren(S)]
<1>1. N \in Nat
  BY FS_CardinalityType
<1>2. Roots \in X /\ next \in [X -> X]
  BY DEF Roots, ActiveChildren, Active
<1>3. \A S \in X : next[S] = ActiveChildren(S)
  OBVIOUS
<1> HIDE DEF N, X, next
<1>4. PICK g \in [0 .. N -> X] :
        g[0] = Roots /\ \A i \in 1 .. N : g[i] = next[g[i - 1]]
  <2>1. Iterates(X, Roots, next, N) # {}
    BY <1>1, <1>2, IteratesExist, Zenon
  <2> QED
    BY <2>1 DEF Iterates
<1>5. g = [n \in 0 .. N |-> IF n = 0 THEN Roots
                            ELSE ActiveChildren(g[n - 1])]
  <2>1. ASSUME NEW n \in 0 .. N
        PROVE  g[n] = IF n = 0 THEN Roots ELSE ActiveChildren(g[n - 1])
    BY <1>1, <1>3, <1>4
  <2> QED
    BY <2>1
<1>6. Level = [n \in 0 .. N |-> IF n = 0 THEN Roots
                                ELSE ActiveChildren(Level[n - 1])]
  BY <1>5 DEF Level, N
<1> QED
  BY <1>1, <1>6 DEF N

\* The categories above a category, one step of get_menu's climb.
Above(S) == S \cup ({cats[c].parent : c \in S \cap Active} \ {0})

LEMMA ChainHasCategory ==
    ASSUME RowsOK, IsFiniteSet(DOMAIN cats), NEW cat
    PROVE  cat \in Chain(cat)
<1> DEFINE N == Cardinality(DOMAIN cats)
           X == SUBSET (DOMAIN cats \cup {cat})
           next == [S \in X |-> Above(S)]
<1>1. N \in Nat
  BY FS_CardinalityType
<1>2. ASSUME NEW S \in X PROVE Above(S) \in X
  BY DEF Above, Active, RowsOK
<1>3. {cat} \in X /\ next \in [X -> X]
  BY <1>2
<1>4. \A S \in X : next[S] = Above(S)
  OBVIOUS
<1> HIDE DEF N, X, next
<1>5. PICK g \in [0 .. N -> X] :
        g[0] = {cat} /\ \A i \in 1 .. N : g[i] = next[g[i - 1]]
  <2>1. Iterates(X, {cat}, next, N) # {}
    BY <1>1, <1>3, IteratesExist, Zenon
  <2> QED
    BY <2>1 DEF Iterates
<1> DEFINE Climbs(f) == f = [n \in 0 .. N |-> IF n = 0 THEN {cat}
                                             ELSE Above(f[n - 1])]
           climb == CHOOSE f : Climbs(f)
<1>6. Climbs(g)
  <2>1. ASSUME NEW n \in 0 .. N
        PROVE  g[n] = IF n = 0 THEN {cat} ELSE Above(g[n - 1])
    BY <1>1, <1>4, <1>5
  <2> QED
    BY <2>1
<1>7. Climbs(climb)
  <2> HIDE DEF Climbs
  <2> QED
    BY <1>6
<1>8. Chain(cat) = climb[N]
  BY DEF Chain, N, Above
<1>9. \A n \in 0 .. N : cat \in climb[n]
  <2> DEFINE Lost == {n \in 0 .. N : cat \notin climb[n]}
  <2> SUFFICES ASSUME Lost # {} PROVE FALSE
    OBVIOUS
  <2> HIDE DEF climb
  <2>1. PICK k \in Lost : \A m \in Lost : k <= m
    <3>1. Lost \subseteq Nat
      BY <1>1
    <3> QED
      BY <3>1, LeastNumber
  <2>2. climb[0] = {cat}
    BY <1>1, <1>7
  <2>3. k # 0 /\ k - 1 \in 0 .. N /\ k - 1 \notin Lost
    BY <1>1, <2>1, <2>2
  <2>4. climb[k] = Above(climb[k - 1])
    BY <1>1, <1>7, <2>3
  <2> QED
    BY <2>3, <2>4 DEF Above
<1> QED
  BY <1>1, <1>8, <1>9

\* Every level is made of categories, and below the roots of children of the
\* level above.
LEMMA LevelsAreCategories ==
    ASSUME IsFiniteSet(DOMAIN cats),
           NEW n \in 0 .. Cardinality(DOMAIN cats)
    PROVE  Level[n] \subseteq DOMAIN cats
<1>1. Cardinality(DOMAIN cats) \in Nat
  BY LevelIsDefined
<1>2. CASE n = 0
  BY <1>2, LevelIsDefined DEF Roots, Active
<1>3. CASE n # 0
  <2>1. n \in 1 .. Cardinality(DOMAIN cats)
    BY <1>1, <1>3
  <2> QED
    BY <2>1, LevelIsDefined DEF ActiveChildren, Active
<1> QED
  BY <1>2, <1>3

\* A category has one parent, so it is on one level only.
LEMMA LevelsAreDisjoint ==
    ASSUME RowsOK, IsFiniteSet(DOMAIN cats),
           NEW i \in 0 .. Cardinality(DOMAIN cats),
           NEW j \in 0 .. Cardinality(DOMAIN cats),
           i < j
    PROVE  Level[i] \cap Level[j] = {}
<1> DEFINE N == Cardinality(DOMAIN cats)
           Meets(k) == \E m \in 0 .. N : k < m /\ Level[k] \cap Level[m] # {}
           Meeting == {k \in 0 .. N : Meets(k)}
<1>1. N \in Nat
  BY LevelIsDefined
<1> SUFFICES ASSUME Meeting # {} PROVE FALSE
  OBVIOUS
<1>2. PICK k \in Meeting : \A m \in Meeting : k <= m
  <2>1. Meeting \subseteq Nat
    BY <1>1
  <2> HIDE DEF Meeting
  <2> QED
    BY <2>1, LeastNumber
<1>3. PICK m \in 0 .. N : k < m /\ Level[k] \cap Level[m] # {}
  OBVIOUS
<1>4. PICK c \in Level[k] : c \in Level[m]
  BY <1>3
<1>5. m \in 1 .. N /\ m - 1 \in 0 .. N
  BY <1>1, <1>3
<1>6. cats[c].parent \in Level[m - 1]
  BY <1>4, <1>5, LevelIsDefined DEF ActiveChildren
<1>7. CASE k = 0
  <2>1. cats[c].parent = 0
    BY <1>4, <1>7, LevelIsDefined DEF Roots
  <2>2. 0 \in DOMAIN cats
    BY <1>5, <1>6, <2>1, LevelsAreCategories
  <2> QED
    BY <2>2 DEF RowsOK
<1>8. CASE k # 0
  <2>1. k \in 1 .. N /\ k - 1 \in 0 .. N /\ k - 1 < m - 1 /\ k - 1 < k
    BY <1>1, <1>3, <1>8
  <2>2. cats[c].parent \in Level[k - 1]
    BY <1>4, <2>1, LevelIsDefined DEF ActiveChildren
  <2>3. k - 1 \in Meeting
    BY <1>5, <1>6, <2>1, <2>2
  <2> QED
    BY <1>1, <1>2, <2>1, <2>3
<1> QED
  BY <1>7, <1>8

\* Levels that are not empty lie below one another without a gap.
LEMMA LevelsWithoutGap ==
    ASSUME IsFiniteSet(DOMAIN cats),
           Level[Cardinality(DOMAIN cats)] # {}
    PROVE  \A n \in 0 .. Cardinality(DOMAIN cats) : Level[n] # {}
<1> DEFINE N == Cardinality(DOMAIN cats)
           Gaps == {d \in 0 .. N : Level[N - d] = {}}
<1>1. N \in Nat
  BY LevelIsDefined
<1>2. ASSUME Gaps # {} PROVE FALSE
  <2>1. PICK d \in Gaps : \A e \in Gaps : d <= e
    <3>1. Gaps \subseteq Nat
      BY <1>1
    <3> HIDE DEF Gaps
    <3> QED
      BY <1>2, <3>1, LeastNumber
  <2>2. d # 0
    BY <1>1
  <2>3. d - 1 \in 0 .. N /\ d - 1 \notin Gaps
    BY <1>1, <2>1, <2>2
  <2>4. N - (d - 1) \in 1 .. N /\ N - (d - 1) - 1 = N - d
    BY <1>1, <2>2
  <2>5. Level[N - (d - 1)] = ActiveChildren(Level[N - d])
    BY <2>4, LevelIsDefined
  <2>6. Level[N - d] # {}
    BY <2>3, <2>5 DEF ActiveChildren
  <2> QED
    BY <2>6
<1>3. ASSUME NEW n \in 0 .. N PROVE Level[n] # {}
  <2>1. N - n \in 0 .. N /\ N - (N - n) = n
    BY <1>1
  <2> QED
    BY <1>2, <2>1
<1> QED
  BY <1>3

LEMMA RecursionEnds ==
    ASSUME RowsOK, IsFiniteSet(DOMAIN cats)
    PROVE  MenuRecursionEnds
<1> DEFINE N == Cardinality(DOMAIN cats)
           member == [n \in 0 .. N |-> CHOOSE c \in Level[n] : TRUE]
<1>1. N \in Nat
  BY LevelIsDefined
<1> SUFFICES ASSUME Level[N] # {} PROVE FALSE
  BY DEF MenuRecursionEnds
<1>2. ASSUME NEW n \in 0 .. N
      PROVE  member[n] \in Level[n] /\ member[n] \in DOMAIN cats
  <2>1. Level[n] # {}
    BY LevelsWithoutGap
  <2> QED
    BY <2>1, LevelsAreCategories
<1> HIDE DEF member
<1>3. ASSUME NEW i \in 0 .. N, NEW j \in 0 .. N, member[i] = member[j]
      PROVE  i = j
  <2>1. ~(i < j) /\ ~(j < i)
    BY <1>2, <1>3, LevelsAreDisjoint
  <2> QED
    BY <1>1, <2>1
<1>4. member \in Injection(0 .. N, DOMAIN cats)
  <2>1. member \in [0 .. N -> DOMAIN cats]
    BY <1>2 DEF member
  <2> QED
    BY <1>3, <2>1 DEF Injection, IsInjective
<1>5. Cardinality(0 .. N) <= N
  BY <1>4, FS_Injection DEF ExistsInjection
<1>6. Cardinality(0 .. N) = N + 1
  BY <1>1, FS_Interval
<1> QED
  BY <1>1, <1>5, <1>6

LEMMA IndexInMenu ==
    ASSUME RowsOK, IsFiniteSet(DOMAIN cats)
    PROVE  IndexWithinMenu
<1> DEFINE N == Cardinality(DOMAIN cats)
<1>1. N \in Nat
  BY LevelIsDefined
<1>2. ASSUME NEW c \in Roots \cup ActiveChildren(Roots)
      PROVE  c \in OnMenu
  <2>1. c \in DOMAIN cats
    BY DEF Roots, ActiveChildren, Active
  <2>2. N # 0
    BY <2>1, FS_EmptySet
  <2>3. 0 \in 0 .. N /\ 1 \in 0 .. N /\ 1 \in 1 .. N /\ 1 - 1 = 0
    BY <1>1, <2>2
  <2>4. c \in Level[0] \/ c \in Level[1]
    BY <2>3, LevelIsDefined
  <2> QED
    BY <2>3, <2>4 DEF OnMenu
<1> QED
  BY <1>2 DEF IndexWithinMenu, Index, Menu

----------------------------------------------------------------------------
(* The three lead times.                                                   *)

\* The largest lead time of some rules.
LEMMA MaxLeadIsLargest ==
    ASSUME NEW R, IsFiniteSet(R), R # {}, \A r \in R : r.lead \in Int
    PROVE  /\ MaxLead(R) \in Int
           /\ \E r \in R : MaxLead(R) = r.lead
           /\ \A r \in R : r.lead <= MaxLead(R)
<1> DEFINE leads == {r.lead : r \in R}
<1>1. leads # {} /\ leads \subseteq Int
  OBVIOUS
<1>2. IsFiniteSet(leads)
  <2> DEFINE lead == [r \in R |-> r.lead]
  <2>1. leads = {lead[r] : r \in R}
    OBVIOUS
  <2> HIDE DEF leads, lead
  <2> QED
    BY <2>1, FiniteImage
<1>3. \E m \in leads : \A x \in leads : x <= m
  <2> HIDE DEF leads
  <2> QED
    BY <1>1, <1>2, LargestInteger
<1>4. MaxLead(R) \in leads /\ \A x \in leads : x <= MaxLead(R)
  <2> HIDE DEF leads
  <2>1. MaxLead(R) = CHOOSE m \in leads : \A x \in leads : x <= m
    BY DEF MaxLead, Maximum, leads
  <2> QED
    BY <1>3, <2>1
<1> QED
  BY <1>1, <1>4

\* _get_product_lead_time_minutes finds the newest rule: ids have a maximum.
LEMMA NewestExists ==
    ASSUME RulesOK, IsFiniteSet(rules), NEW R, R \subseteq rules, R # {}
    PROVE  \E r \in R : \A q \in R : q.id <= r.id
<1> DEFINE ids == {r.id : r \in R}
<1>1. ids # {} /\ ids \subseteq Int
  BY DEF RulesOK, Rules
<1>2. IsFiniteSet(R)
  BY FS_Subset
<1>3. IsFiniteSet(ids)
  <2> DEFINE id == [r \in R |-> r.id]
  <2>1. ids = {id[r] : r \in R}
    OBVIOUS
  <2> HIDE DEF ids, id
  <2> QED
    BY <1>2, <2>1, FiniteImage
<1>4. \E m \in ids : \A x \in ids : x <= m
  <2> HIDE DEF ids
  <2> QED
    BY <1>1, <1>3, LargestInteger
<1> QED
  BY <1>4

LEMMA CoreRuleKeepsLead ==
    ASSUME NEW R, R \subseteq Rules
    PROVE  MaxLead({CoreRule(r) : r \in R}) = MaxLead(R)
<1>1. \A r \in R : CoreRule(r).lead = r.lead
  BY DEF CoreRule, Rules
<1> DEFINE core == {CoreRule(r) : r \in R}
<1>2. \A r \in R : CoreRule(r) \in core
  OBVIOUS
<1>3. \A c \in core : \E r \in R : c = CoreRule(r)
  OBVIOUS
<1> HIDE DEF core
<1>4. {c.lead : c \in core} = {r.lead : r \in R}
  BY <1>1, <1>2, <1>3
<1>5. MaxLead(core) = MaxLead(R)
  BY <1>4 DEF MaxLead
<1> QED
  BY <1>5 DEF core

\* What the three functions look at: the product's own rules, else those of
\* its category; the menu also those of the categories above it.
LEMMA LeadsOfProduct ==
    ASSUME ShopOK, IsFiniteSet(DOMAIN cats), IsFiniteSet(rules),
           NEW p \in products
    PROVE  /\ OrderLead(p) <= IndexLead(p)
           /\ IndexLead(p) <= Larger(0, MenuLead(p))
<1> DEFINE own   == ActiveRules("product", {p.id})
           near  == ActiveRules("category", {p.cat})
           above == ActiveRules("category", Chain(p.cat))
           Newest(R) == CHOOSE r \in R : \A q \in R : q.id <= r.id
<1>1. /\ own \subseteq rules /\ near \subseteq above /\ above \subseteq rules
      /\ rules \subseteq Rules
  <2>1. p.cat \in Chain(p.cat)
    BY ChainHasCategory DEF ShopOK
  <2> QED
    BY <2>1 DEF ActiveRules, ShopOK, RulesOK
<1>2. ASSUME NEW R, R \subseteq rules, R # {}
      PROVE  /\ Newest(R) \in R
             /\ MaxLead(R) \in Int /\ \E r \in R : MaxLead(R) = r.lead
             /\ \A r \in R : r.lead \in Int /\ r.lead <= MaxLead(R)
  <2>1. Newest(R) \in R
    BY <1>2, NewestExists DEF ShopOK
  <2>2. IsFiniteSet(R)
    BY <1>2, FS_Subset
  <2>3. \A r \in R : r.lead \in Int
    BY <1>1, <1>2 DEF Rules
  <2> QED
    BY <1>2, <2>1, <2>2, <2>3, MaxLeadIsLargest
<1>3. /\ ProductRules(p) = {} <=> own = {}
      /\ CategoryRules(p) = {} <=> above = {}
      /\ MaxLead(ProductRules(p)) = MaxLead(own)
      /\ MaxLead(CategoryRules(p)) = MaxLead(above)
  BY <1>1, CoreRuleKeepsLead DEF ProductRules, CategoryRules
<1> HIDE DEF own, near, above
<1>4. CASE own # {}
  <2>1. OrderLead(p) = Larger(0, Newest(own).lead)
    BY <1>4 DEF OrderLead, own
  <2>2. /\ IndexLead(p) = Larger(0, MaxLead(own))
        /\ MenuLead(p) = MaxLead(own)
    BY <1>3, <1>4 DEF IndexLead, MenuLead, own
  <2>3. /\ Newest(own).lead \in Int /\ MaxLead(own) \in Int
        /\ Newest(own).lead <= MaxLead(own)
    BY <1>1, <1>2, <1>4
  <2> HIDE DEF Newest
  <2> QED
    BY <2>1, <2>2, <2>3 DEF Larger
<1>5. CASE own = {} /\ near # {}
  <2>1. OrderLead(p) = Larger(0, Newest(near).lead)
    BY <1>5 DEF OrderLead, own, near
  <2>2. above # {}
    BY <1>1, <1>5
  <2>3. /\ IndexLead(p) = Larger(0, MaxLead(near))
        /\ MenuLead(p) = MaxLead(above)
    BY <1>3, <1>5, <2>2 DEF IndexLead, MenuLead, own, near
  <2>4. /\ Newest(near).lead \in Int /\ MaxLead(near) \in Int
        /\ Newest(near).lead <= MaxLead(near)
    BY <1>1, <1>2, <1>5
  <2>5. MaxLead(above) \in Int /\ MaxLead(near) <= MaxLead(above)
    BY <1>1, <1>2, <1>5, <2>2
  <2> HIDE DEF Newest
  <2> QED
    BY <2>1, <2>3, <2>4, <2>5 DEF Larger
<1>6. CASE own = {} /\ near = {}
  <2>1. OrderLead(p) = 0 /\ IndexLead(p) = 0
    BY <1>6 DEF OrderLead, IndexLead, own, near
  <2>2. MenuLead(p) \in Int
    BY <1>1, <1>2, <1>3, <1>6 DEF MenuLead
  <2> QED
    BY <2>1, <2>2 DEF Larger
<1> QED
  BY <1>4, <1>5, <1>6

----------------------------------------------------------------------------
(* The rule that decides.                                                  *)

\* Rules have a first one in the order of rule_priority.
LEMMA FirstRuleExists ==
    ASSUME NEW R, R # {}, \A r \in R : r.id \in Nat
    PROVE  /\ FirstRule(R) \in R
           /\ \A q \in R : Precedes(FirstRule(R), q)
<1>1. \A r \in R : DaypartOrder(r) \in {0, 1}
  BY DEF DaypartOrder
<1>2. PICK k \in {0, 1} :
        /\ \E r \in R : DaypartOrder(r) = k
        /\ \A r \in R : k <= DaypartOrder(r)
  <2>1. CASE \E r \in R : DaypartOrder(r) = 0
    BY <1>1, <2>1
  <2>2. CASE ~\E r \in R : DaypartOrder(r) = 0
    BY <1>1, <2>2
  <2> QED
    BY <2>1, <2>2
<1> DEFINE ids == {r.id : r \in {q \in R : DaypartOrder(q) = k}}
<1>3. ids # {} /\ ids \subseteq Nat
  BY <1>2
<1>4. PICK n \in ids : \A m \in ids : n <= m
  <2> HIDE DEF ids
  <2> QED
    BY <1>3, LeastNumber
<1>5. PICK r \in R : DaypartOrder(r) = k /\ r.id = n
  OBVIOUS
<1>6. ASSUME NEW q \in R PROVE Precedes(r, q)
  <2>1. CASE DaypartOrder(q) = k
    <3>1. q.id \in ids
      BY <2>1
    <3> HIDE DEF ids
    <3> QED
      BY <1>4, <1>5, <2>1, <3>1 DEF Precedes
  <2>2. CASE DaypartOrder(q) # k
    BY <1>1, <1>2, <1>5, <2>2 DEF Precedes
  <2> QED
    BY <2>1, <2>2
<1> QED
  BY <1>6 DEF FirstRule

\* CheckRule says yes to a wished slot only in the window and after the lead
\* time.
LEMMA AvailableByRule ==
    ASSUME NEW rule \in Rules, NEW target, NEW now \in Instant,
           NEW slot \in Nat, CheckRule(rule, target, now, slot).available
    PROVE  /\ Contains(EffectiveWindow(rule), slot)
           /\ rule.lead > 0 =>
                 Calendar(TargetDate(target, now), slot)
                     >= Calendar(now.day, UpToMinute(now)) + rule.lead
<1> DEFINE window == EffectiveWindow(rule)
           next == NextAvailable(window, rule.lead, now)
           soon == /\ rule.lead > 0
                   /\ Calendar(TargetDate(target, now), slot)
                        < Calendar(now.day, UpToMinute(now) + rule.lead)
<1>1. slot # NoTime
  BY DEF NoTime
<1>2. CheckRule(rule, target, now, slot) =
        IF ~Contains(window, slot) THEN Answer(FALSE, next, "OUTSIDE_WINDOW")
        ELSE IF ~soon THEN Answer(TRUE, NoTime, "none")
        ELSE Answer(FALSE, next, "LEAD_TIME")
  BY <1>1 DEF CheckRule
<1> HIDE DEF window, next, soon
<1>3. Contains(window, slot) /\ ~soon
  <2>1. \A n, why : Answer(FALSE, n, why).available = FALSE
    BY DEF Answer
  <2> QED
    BY <1>2, <2>1
<1>4. now.day \in Nat /\ UpToMinute(now) \in Int /\ rule.lead \in Int
  BY UpToMinuteType DEF Instant, Rules
<1>5. TargetDate(target, now) \in Nat
  BY <1>4 DEF TargetDate
<1> QED
  BY <1>3, <1>4, <1>5 DEF window, soon, Calendar, DayLength

LEMMA AvailableIsServed ==
    ASSUME ShopOK, BoardType,
           NEW p \in Menu, NEW target \in Targets, NEW method \in Methods,
           NEW w \in Wishes, Availability(p, target, method, w.slot).available
    PROVE  \E r \in rules :
              Serves(r, p, method, TargetDate(target, Now), w.slot)
<1> DEFINE own   == Usable(ProductRules(p), method)
           above == Usable(CategoryRules(p), method)
           able  == Applicable(ProductRules(p), CategoryRules(p), method)
           core  == FirstRule(able)
<1>1. rules \subseteq Rules /\ Now \in Instant /\ w.slot \in Nat
  BY NowType, BoardAssumption DEF ShopOK, RulesOK
<1>2. ASSUME NEW r \in rules
      PROVE  /\ CoreRule(r) \in Rules /\ CoreRule(r).id = r.id
             /\ CoreRule(r).lead = r.lead /\ CoreRule(r).active = r.active
             /\ EffectiveWindow(CoreRule(r)) = EffectiveWindow(r)
             /\ CoreRule(r).methods = IF r.methods = {} THEN Methods
                                      ELSE r.methods
  <2>1. r \in Rules
    BY <1>1
  <2> QED
    BY <2>1 DEF CoreRule, Rules, EffectiveWindow, DaypartWindow
<1>3. able # {} /\ CheckRule(core, target, Now, w.slot).available
  <2>1. \A n, why : Answer(FALSE, n, why).available = FALSE
    BY DEF Answer
  <2> HIDE DEF able, core
  <2> QED
    BY <2>1 DEF Availability, CheckAvailability, able, core
<1>4. able \subseteq own \/ (own = {} /\ able \subseteq above)
  BY DEF Applicable
<1>5. ASSUME NEW c \in own \cup above
      PROVE  \E r \in rules :
                /\ c = CoreRule(r) /\ r.active /\ method \in c.methods
                /\ c \in own => r.scope = "product" /\ r.of = p.id
                /\ c \notin own => r.scope = "category" /\ r.of \in Chain(p.cat)
  BY DEF Usable, ProductRules, CategoryRules, ActiveRules
<1>6. core \in able
  <2>1. \A c \in able : c.id \in Nat
    BY <1>1, <1>2, <1>4, <1>5 DEF Rules
  <2> HIDE DEF able
  <2> QED
    BY <1>3, <2>1, FirstRuleExists
<1> HIDE DEF core, able
<1>7. PICK r \in rules :
        /\ core = CoreRule(r) /\ r.active /\ method \in core.methods
        /\ core \in own => r.scope = "product" /\ r.of = p.id
        /\ core \notin own => r.scope = "category" /\ r.of \in Chain(p.cat)
  BY <1>4, <1>5, <1>6
<1>8. /\ Contains(EffectiveWindow(r), w.slot)
      /\ r.lead > 0 =>
            Calendar(TargetDate(target, Now), w.slot)
                >= Calendar(Now.day, UpToMinute(Now)) + r.lead
  BY <1>1, <1>2, <1>3, <1>7, AvailableByRule
<1>9. r.methods = {} \/ method \in r.methods
  BY <1>2, <1>7
<1>10. CASE core \in own
  BY <1>7, <1>8, <1>9, <1>10 DEF Serves
<1>11. CASE core \notin own
  <2>1. own = {}
    BY <1>4, <1>6, <1>11
  <2>2. ASSUME NEW q \in rules, q.active, q.scope = "product", q.of = p.id
        PROVE  q.methods # {} /\ method \notin q.methods
    <3>1. CoreRule(q) \in ProductRules(p) /\ CoreRule(q).active
      BY <1>2, <2>2 DEF ProductRules, ActiveRules
    <3>2. method \notin CoreRule(q).methods
      BY <2>1, <3>1 DEF Usable
    <3> QED
      BY <1>2, <3>2
  <2> QED
    BY <1>7, <1>8, <1>9, <1>11, <2>2 DEF Serves
<1> QED
  BY <1>10, <1>11

\* A slot that create_order takes for today or tomorrow is of no Sunday and
\* the buffer away.
LEMMA TakenIsOpen ==
    ASSUME BoardType, NEW target \in Targets, NEW slot \in Nat,
           CheckSlot(slot, TargetDate(target, Now))
    PROVE  /\ ~IsSunday(TargetDate(target, Now))
           /\ CeilToInterval(Now, config.step) < DayLength =>
                 Calendar(TargetDate(target, Now), slot)
                     >= Calendar(Now.day, UpToMinute(Now)) + config.buffer
<1>1. /\ Now \in Instant /\ Now.day \in Nat
      /\ config.step \in Nat \ {0} /\ config.buffer \in Int
  BY SMTT(40), NowType DEF BoardType, Config, Instant
<1>2. OnBoard(slot, target)
  <2>1. CASE target = "today"
    BY <2>1 DEF CheckSlot, TargetDate
  <2>2. CASE target = "tomorrow"
    <3>1. TargetDate(target, Now) = Now.day + 1
      BY <2>2 DEF TargetDate
    <3>2. TargetDate(target, Now) # Now.day
      BY <1>1, <3>1
    <3> QED
      BY <2>2, <3>2 DEF CheckSlot
  <2> QED
    BY <2>1, <2>2 DEF Targets
<1>3. /\ slot \in DOMAIN GetSlots(target, Now, config.step, config.buffer,
                                  Cutoff)
      /\ GetSlots(target, Now, config.step, config.buffer, Cutoff)[slot]
  BY <1>2 DEF OnBoard, Board
<1>4. SlotError(target, Now, Cutoff) = "none"
  BY <1>3, ErrorMeansNoSlots
<1>5. ~IsSunday(TargetDate(target, Now))
  BY <1>4 DEF SlotError
<1> QED
  BY <1>1, <1>3, <1>5, AvailableIsAhead

\* AvailableMeansDeliverable, of what GET /api/slots and create_order agree on.
LEMMA Deliverable ==
    ASSUME ShopOK, BoardType, SlotsAgree PROVE AvailableMeansDeliverable
<1> SUFFICES ASSUME NEW target \in Targets, NEW p \in Menu,
                    NEW method \in Methods, NEW w \in Wishes,
                    w.slot \in Offered(target),
                    Availability(p, target, method, w.slot).available
             PROVE
      LET date == TargetDate(target, Now) IN
      /\ CheckSlot(w.slot, date) /\ ~IsSunday(date)
      /\ CeilToInterval(Now, config.step) < DayLength =>
            Calendar(date, w.slot)
                >= Calendar(Now.day, UpToMinute(Now)) + config.buffer
      /\ \E r \in rules : Serves(r, p, method, date, w.slot)
  BY DEF AvailableMeansDeliverable
<1>1. CheckSlot(w.slot, TargetDate(target, Now)) /\ w.slot \in Nat
  BY BoardAssumption DEF SlotsAgree
<1> QED
  BY <1>1, TakenIsOpen, AvailableIsServed

----------------------------------------------------------------------------
(* What a rule says of tomorrow.                                           *)

\* The first of some rules does not depend on fields that rule_priority does
\* not look at.
LEMMA FirstOfImage ==
    ASSUME NEW R \in SUBSET Rules, R # {},
           \A r, q \in R : r.id = q.id => r = q,
           NEW f \in [Rules -> Rules],
           \A r \in Rules : f[r].id = r.id /\ f[r].daypart = r.daypart
    PROVE  FirstRule({f[r] : r \in R}) = f[FirstRule(R)]
<1> DEFINE image == {f[r] : r \in R}
           first == FirstRule(image)
           least == FirstRule(R)
<1>1. least \in R /\ \A q \in R : Precedes(least, q)
  BY FirstRuleExists DEF Rules
<1>2. first \in image /\ \A q \in image : Precedes(first, q)
  <2>1. image # {} /\ \A r \in image : r.id \in Nat
    BY DEF Rules
  <2> HIDE DEF image
  <2> QED
    BY <2>1, FirstRuleExists
<1>3. PICK a \in R : first = f[a]
  BY <1>2
<1> HIDE DEF first, least
<1>4. Precedes(a, least) /\ Precedes(least, a)
  <2>1. Precedes(f[a], f[least])
    BY <1>1, <1>2, <1>3
  <2> QED
    BY <1>1, <2>1 DEF Precedes, DaypartOrder
<1>5. a.id \in Nat /\ least.id \in Nat
  BY <1>1 DEF Rules
<1>6. a.id = least.id
  BY <1>4, <1>5 DEF Precedes, DaypartOrder
<1>7. a = least
  BY <1>1, <1>6
<1> QED
  BY <1>3, <1>7 DEF first, least

\* The image of a set is empty only if the set is.
LEMMA EmptyImage ==
    ASSUME NEW R, NEW image, NEW f,
           \A r \in R : f[r] \in image,
           \A s \in image : \E r \in R : s = f[r]
    PROVE  (image = {}) <=> (R = {})
OBVIOUS

\* allow_tomorrow and tomorrow_cutoff of the rules decide nothing: whatever
\* is written into them, every answer of check_availability is the same.
\* The model of the rule calls them the latest time to order for tomorrow
\* (availability_models.py:30, 61-66).
THEOREM TomorrowFieldsUnread ==
    ASSUME NEW own \in SUBSET Rules, NEW above \in SUBSET Rules,
           \A r, q \in own : r.id = q.id => r = q,
           \A r, q \in above : r.id = q.id => r = q,
           NEW f \in [Rules -> Rules],
           \A r \in Rules : \E t, c :
              f[r] = [r EXCEPT !.tomorrow = t, !.cutoff = c],
           NEW target, NEW method, NEW now, NEW slot, NEW cutoff
    PROVE  CheckAvailability({f[r] : r \in own}, {f[r] : r \in above},
                             target, method, now, slot, cutoff)
              = CheckAvailability(own, above, target, method, now, slot,
                                  cutoff)
<1>1. \A r \in Rules :
         /\ f[r].id = r.id /\ f[r].daypart = r.daypart
         /\ f[r].start = r.start /\ f[r].end = r.end /\ f[r].lead = r.lead
         /\ f[r].methods = r.methods /\ f[r].active = r.active
  BY DEF Rules
<1>2. ASSUME NEW R \in SUBSET Rules
      PROVE  Usable({f[r] : r \in R}, method) = {f[r] : r \in Usable(R, method)}
  <2>1. \A r \in R : /\ f[r].active = r.active
                     /\ f[r].methods = r.methods
    BY <1>1
  <2>2. Usable({f[r] : r \in R}, method)
           \subseteq {f[r] : r \in Usable(R, method)}
    <3> SUFFICES ASSUME NEW s \in Usable({f[r] : r \in R}, method)
                 PROVE  s \in {f[r] : r \in Usable(R, method)}
      OBVIOUS
    <3>0. PICK r \in R : s = f[r] /\ f[r].active /\ method \in f[r].methods
      BY DEF Usable
    <3>1. r \in Usable(R, method)
      BY <2>1, <3>0 DEF Usable
    <3> QED
      BY <3>0, <3>1
  <2>3. {f[r] : r \in Usable(R, method)}
           \subseteq Usable({f[r] : r \in R}, method)
    <3> SUFFICES ASSUME NEW r \in Usable(R, method)
                 PROVE  f[r] \in Usable({f[q] : q \in R}, method)
      OBVIOUS
    <3>1. r \in R /\ f[r].active /\ method \in f[r].methods
      BY <2>1 DEF Usable
    <3> QED
      BY <3>1 DEF Usable
  <2> QED
    BY <2>2, <2>3
<1> DEFINE S == Applicable(own, above, method)
           T == Applicable({f[r] : r \in own}, {f[r] : r \in above}, method)
<1>3. /\ S \in SUBSET Rules /\ T = {f[r] : r \in S}
      /\ \A r, q \in S : r.id = q.id => r = q
  <2>1. /\ Usable(own, method) \subseteq own
        /\ Usable(above, method) \subseteq above
    BY DEF Usable
  <2>2. S = IF Usable(own, method) # {} THEN Usable(own, method)
            ELSE Usable(above, method)
    BY DEF Applicable
  <2>3. T = IF Usable(own, method) # {}
            THEN {f[r] : r \in Usable(own, method)}
            ELSE {f[r] : r \in Usable(above, method)}
    <3>1. Usable({f[r] : r \in own}, method)
             = {f[r] : r \in Usable(own, method)}
      BY <1>2
    <3>2. Usable({f[r] : r \in above}, method)
             = {f[r] : r \in Usable(above, method)}
      BY <1>2
    <3>3. (Usable({f[r] : r \in own}, method) = {})
             <=> (Usable(own, method) = {})
      <4> DEFINE image == Usable({f[r] : r \in own}, method)
      <4>1. /\ \A r \in Usable(own, method) : f[r] \in image
            /\ \A s \in image : \E r \in Usable(own, method) : s = f[r]
        BY <3>1
      <4> HIDE DEF image
      <4>2. (image = {}) <=> (Usable(own, method) = {})
        BY <4>1, EmptyImage
      <4> QED
        BY <4>2 DEF image
    <3> QED
      BY Zenon, <3>1, <3>2, <3>3 DEF Applicable
  <2> HIDE DEF S, T
  <2> QED
    BY <2>1, <2>2, <2>3
<1>4. ASSUME S # {}
      PROVE  CheckRule(FirstRule(T), target, now, slot)
                = CheckRule(FirstRule(S), target, now, slot)
  <2> DEFINE r == FirstRule(S)
  <2>1. FirstRule(T) = f[r]
    <3> HIDE DEF S, T
    <3> QED
      BY <1>1, <1>3, <1>4, FirstOfImage
  <2>2. r \in Rules
    <3>1. \A q \in S : q.id \in Nat
      BY <1>3 DEF Rules
    <3> HIDE DEF S
    <3> QED
      BY <1>3, <1>4, <3>1, FirstRuleExists
  <2> HIDE DEF r
  <2>3. EffectiveWindow(f[r]) = EffectiveWindow(r) /\ f[r].lead = r.lead
    BY <1>1, <2>2 DEF EffectiveWindow
  <2>4. CheckRule(f[r], target, now, slot) = CheckRule(r, target, now, slot)
    BY <2>3 DEF CheckRule
  <2> QED
    BY <2>1, <2>4 DEF r
<1> HIDE DEF S, T
<1>5. (T = {}) <=> (S = {})
  <2>1. (\A r \in S : f[r] \in T) /\ \A s \in T : \E r \in S : s = f[r]
    BY <1>3
  <2> QED
    BY <2>1, EmptyImage
<1> QED
  BY <1>4, <1>5 DEF CheckAvailability, S, T


----------------------------------------------------------------------------
(* Tables are finite.                                                      *)

FiniteOK == IsFiniteSet(DOMAIN cats) /\ IsFiniteSet(rules)

\* A step adds at most one category and one rule.
LEMMA FiniteStep ==
    ASSUME FiniteOK, [Next]_vars PROVE FiniteOK'
<1>1. \A S, T, x : IsFiniteSet(S) /\ T \subseteq S \cup {x} => IsFiniteSet(T)
  <2> TAKE S, T, x
  <2> HAVE IsFiniteSet(S) /\ T \subseteq S \cup {x}
  <2>1. IsFiniteSet(S \cup {x})
    BY FS_AddElement
  <2> QED
    BY <2>1, FS_Subset
<1>2. \/ UNCHANGED cats
      \/ \E id : DOMAIN cats' \subseteq DOMAIN cats \cup {id}
  <2>1. CASE CommitCategory
    <3>1. DOMAIN cats' = DOMAIN cats \cup {form.id}
      BY <2>1 DEF CommitCategory
    <3> QED
      BY <3>1
  <2>2. CASE CommitDeletion
    <3>1. DOMAIN cats' = DOMAIN cats \ {form.id} \/ UNCHANGED cats
      BY <2>2 DEF CommitDeletion
    <3> QED
      BY <3>1
  <2>3. CASE \/ UNCHANGED vars \/ ClockTicks \/ OrderPlaced
             \/ OrderCancelled \/ OpenIndex \/ SendCategory \/ SendProduct
             \/ SendDeletion \/ FormFails \/ CommitProduct
    BY <2>3 DEF vars, ClockTicks, OrderPlaced, OrderCancelled, OpenIndex,
                SendCategory, SendProduct, SendDeletion, FormFails,
                CommitProduct, shopVars
  <2>4. CASE Edit
    BY <2>4 DEF Edit, ToggleActive, BulkActivate, BulkDeactivate, SetActive,
                BulkMove, ImportApi, ImportAdmin, SaveRule, DeleteRule,
                ChangeDaypart, ChangeMethods, EditConfig, shopVars
  <2> QED
    BY <2>1, <2>2, <2>3, <2>4 DEF Next, FormStep
<1>3. \/ UNCHANGED rules
      \/ \E rule : rules' \subseteq rules \cup {rule}
  <2>1. CASE SaveRule
    <3>1. PICK value \in RuleForms, id \in {r.id : r \in rules} \cup {NewId} :
            rules' = {r \in rules : r.id # id} \cup {[value EXCEPT !.id = id]}
      BY <2>1 DEF SaveRule
    <3> QED
      BY <3>1
  <2>2. CASE DeleteRule
    BY <2>2 DEF DeleteRule
  <2>3. CASE ChangeDaypart
    <3>1. PICK r \in rules, daypart \in Dayparts :
            rules' = (rules \ {r}) \cup {[r EXCEPT !.daypart = daypart]}
      BY <2>3 DEF ChangeDaypart
    <3> QED
      BY <3>1
  <2>4. CASE ChangeMethods
    <3>1. PICK r \in rules, methods \in (SUBSET Methods) \ {{}} :
            rules' = (rules \ {r}) \cup {[r EXCEPT !.methods = methods]}
      BY <2>4 DEF ChangeMethods
    <3> QED
      BY <3>1
  <2>5. CASE \/ UNCHANGED vars \/ ClockTicks \/ OrderPlaced
             \/ OrderCancelled \/ OpenIndex \/ FormStep
    BY <2>5 DEF vars, ClockTicks, OrderPlaced, OrderCancelled, OpenIndex,
                FormStep, SendCategory, SendProduct, SendDeletion, FormFails,
                CommitCategory, CommitProduct, CommitDeletion, shopVars
  <2>6. CASE \/ ToggleActive \/ BulkActivate \/ BulkDeactivate
             \/ BulkMove \/ ImportApi \/ ImportAdmin \/ EditConfig
    BY <2>6 DEF ToggleActive, BulkActivate, BulkDeactivate, SetActive,
                BulkMove, ImportApi, ImportAdmin, EditConfig, shopVars
  <2> QED
    BY <2>1, <2>2, <2>3, <2>4, <2>5, <2>6 DEF Next, Edit
<1>4. IsFiniteSet(DOMAIN cats')
  <2>1. CASE UNCHANGED cats
    BY <2>1 DEF FiniteOK
  <2>2. CASE \E id : DOMAIN cats' \subseteq DOMAIN cats \cup {id}
    BY <1>1, <2>2 DEF FiniteOK
  <2> QED
    BY <1>2, <2>1, <2>2
<1>5. IsFiniteSet(rules')
  <2>1. CASE UNCHANGED rules
    BY <2>1 DEF FiniteOK
  <2>2. CASE \E rule : rules' \subseteq rules \cup {rule}
    BY <1>1, <2>2 DEF FiniteOK
  <2> QED
    BY <1>3, <2>1, <2>2
<1> QED
  BY <1>4, <1>5 DEF FiniteOK

LEMMA FiniteHolds == Spec => []FiniteOK
<1>1. Init => FiniteOK
  BY CatalogueAssumption DEF Init, FiniteOK
<1>2. FiniteOK /\ [Next]_vars => FiniteOK'
  BY FiniteStep
<1> QED
  BY <1>1, <1>2, PTL DEF Spec

----------------------------------------------------------------------------
(* The menu.                                                               *)

\* Whatever the admins do to parent links, get_menu's recursion over
\* categories ends: every level it reaches is disjoint from those above it.
THEOREM MenuRecursionAlwaysEnds == Spec => []MenuRecursionEnds
<1>1. ShopOK /\ FiniteOK => MenuRecursionEnds
  BY RecursionEnds DEF ShopOK, FiniteOK
<1> QED
  BY <1>1, ShopHolds, FiniteHolds, PTL

\* What the index page shows, /api/menu has.
THEOREM IndexIsWithinMenu == Spec => []IndexWithinMenu
<1>1. ShopOK /\ FiniteOK => IndexWithinMenu
  BY IndexInMenu DEF ShopOK, FiniteOK
<1> QED
  BY <1>1, ShopHolds, FiniteHolds, PTL

\* For any rules, windows, lead times, configurations and instants: what is
\* called available at a slot that is offered can be delivered then.
THEOREM AvailableIsDeliverable == Spec => []AvailableMeansDeliverable
<1>1. ShopOK /\ BoardType /\ SlotsAgree => AvailableMeansDeliverable
  BY Deliverable
<1> QED
  BY <1>1, ShopHolds, BothGridsAgreeInShop, BoardIsImplemented,
     BoardTypeHolds, PTL

\* An order is promised with no more lead time than the index page showed,
\* and the menu shows no less than the index page.
THEOREM LeadsAreOrdered == Spec => []LeadsOrdered
<1>1. ShopOK /\ FiniteOK => LeadsOrdered
  <2> SUFFICES ASSUME ShopOK, FiniteOK PROVE LeadsOrdered
    OBVIOUS
  <2>1. \A p \in products :
           /\ OrderLead(p) <= IndexLead(p)
           /\ IndexLead(p) <= Larger(0, MenuLead(p))
    BY LeadsOfProduct DEF FiniteOK
  <2>2. \A period : Index(period) \subseteq products
    BY DEF Index
  <2> QED
    BY <2>1, <2>2 DEF LeadsOrdered
<1> QED
  BY <1>1, ShopHolds, FiniteHolds, PTL

============================================================================
