CONSTANTS
    Instants <- MCShortInstants
    Configs <- MCConfigs
    Wishes <- MCWishes
    MaxOrders = 1
    Catalogues <- MCCatalogues
    RuleForms <- MCRuleForms
    Files <- MCFiles
    Previews = {"none"}
    CategoryForms <- MCCategoryForms
    Defaults = {0, 2}
    MaxChanges = 2
SPECIFICATION Spec
INVARIANTS
    TypeOK
    SlotsAgree
    OrdersAreAhead
    SundaysStayFree
    MenuRecursionEnds
    IndexWithinMenu
    AvailableMeansDeliverable
    LeadsOrdered
    PagesShowEdits
    DuplicatesComeFromOneFile
    PreorderOpensAhead
CHECK_DEADLOCK FALSE
