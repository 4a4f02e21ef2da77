CONSTANTS
    Catalogs <- MCCatalogs
    Kind <- MCKind
    Mode <- MCMode
    Areas <- MCAreas
    RoofOf <- MCRoofOf
SPECIFICATION WizardSpec
INVARIANTS QuantitiesKnown ShownIsPriced MeasuredHere
