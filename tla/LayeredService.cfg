CONSTANTS
    UserTypes = {t1}
    Providers = {b1, b2}
    Permissions = {p, q}
    Predicates = {{{p}, {q}}}
    Paths = {a, b}
    MaxLayers = 3
SPECIFICATION Spec
SYMMETRY Symmetry
INVARIANT GuardsHold
INVARIANT ExtractorsFindTheirLayers
INVARIANT CurrentIsInnermost
