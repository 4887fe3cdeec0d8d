CONSTANTS
    Fixtures = {"strip", "lamp", "pixel"}
    Leds <- MCLeds
    ProtocolOf <- MCProtocolOf
    NoFixture = NoFixture
    MaxChain = 2
    MaxBuffers = 2
SPECIFICATION Spec
INVARIANTS WritesOwnMemory FaultsOnlyBetweenStores  PlacesDisjoint
PROPERTY CallbackEnds
CONSTRAINT FewStates
