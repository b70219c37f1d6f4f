SPECIFICATION TransportSpec
CONSTANTS
    Count = 3
    Configurations <- MCConfigurations
INVARIANTS
    UniformTransport
