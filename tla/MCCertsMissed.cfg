SPECIFICATION FairSpecCerts
CONSTANTS
    Handshake = {h1, h2}
    MaxVersion = 2
    MaxWrites = 4
PROPERTY EveryRenewalPickedUp
