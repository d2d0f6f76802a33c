\* What the catalog's comments say of it; each is violated (tlc -continue).
CONSTANTS
    Scopes = {task}
    Attempts = {a1}
    Steps = {1}
    Keys = {p1, p2}
    Hashes = {h1}
    Worlds = {w1}
    MaxManifests = 1

SPECIFICATION CatalogSpec

PROPERTIES
    ManifestIsComplete
    QuarantineIsForGood
