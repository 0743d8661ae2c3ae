SPECIFICATION Spec
CONSTANTS
    None = None
    blue = blue
    lumina = lumina
    aster = aster
    net15 = net15
    net30 = net30
    net45 = net45
    Vendors = {blue, lumina}
    Customers = {aster}
    Terms = {net15, net30, net45}
    Master <- MCMaster
    Documents <- MCDocuments
    ModelPayloads <- MCModelPayloads
    Others = {other, another}
    InitialHits = 3
    TopK = 5
    CiteLimit = 4
    MaxRetries = 2
    MaxPages = 2
CHECK_DEADLOCK FALSE
INVARIANT PurchaseOrderRule
