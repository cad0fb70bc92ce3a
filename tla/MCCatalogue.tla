---------------------------- MODULE MCCatalogue ----------------------------
EXTENDS Catalogue, MCSlotBoard

\* Rules of products say that they are not for tomorrow.
Rule(id, scope, of, daypart, start, end, lead, methods) ==
    [id |-> id, scope |-> scope, of |-> of, daypart |-> daypart,
     start |-> start, end |-> end, lead |-> lead, methods |-> methods,
     tomorrow |-> scope = "category", cutoff |-> 18 * 60, active |-> TRUE]

Item(id, name, cat, period) ==
    [id |-> id, name |-> name, cat |-> cat, on |-> TRUE, period |-> period,
     via |-> "form", batch |-> 0]

\* A root with a subcategory of its own subcategory, and a second root.
MCCatalogues ==
    { [cats |-> << [parent |-> 0, on |-> TRUE, period |-> "both"],
                   [parent |-> 1, on |-> TRUE, period |-> "both"],
                   [parent |-> 2, on |-> TRUE, period |-> "evening"] >>,
       products |-> {Item(1, "soup", 2, "none"), Item(2, "cake", 3, "both")},
       rules |-> {Rule(1, "category", 1, "ALLDAY", NoTime, NoTime, 90, {}),
                  Rule(2, "product", 1, "MORNING", NoTime, NoTime, -30,
                       {"pickup"})}] }

MCRuleForms ==
    { Rule(0, "category", 2, "EVENING", NoTime, NoTime, 180, {"delivery"}),
      Rule(0, "product", 1, "ALLDAY", 10 * 60, 12 * 60, 30, {}),
      Rule(0, "product", 2, "ALLDAY", 12 * 60, 10 * 60, 30, {}) }

MCCategoryForms ==
    { [parent |-> 3, on |-> TRUE], [parent |-> 1, on |-> FALSE] }

Row(name, cat) == [name |-> name, cat |-> cat]

MCFiles ==
    { <<Row("tea", 0), Row("tea", 1)>>, <<Row("soup", 2), Row("", 1)>>,
      <<Row("tea", 2), Row("pie", 99)>> }

============================================================================
