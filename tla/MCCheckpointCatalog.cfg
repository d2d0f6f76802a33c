\* Safety of commits and selection.
CONSTANTS
    Scopes = {task}
    Attempts = {a1}
    Steps = {1, 2}
    Keys = {p1, p2}
    Hashes = {h1, h2}
    Worlds = {w1}
    MaxManifests = 3

SPECIFICATION CatalogSpec

SYMMETRY Symmetry

PROPERTIES
    ManifestStands
    ResumeNeverRecedes
