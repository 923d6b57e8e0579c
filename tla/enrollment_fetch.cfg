SPECIFICATION Spec
CONSTANTS
    Node = {n1, n2}
    MaxKey = 2
    Fragile = {}
PROPERTY AllCertificatesFetched
