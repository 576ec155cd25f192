\* Two sub-surfaces, either of them possibly without a comp_surf, stacked alternately above each other climb the whole
\* int8_t order range, so both ends of it are reached.
CONSTANTS
  Surfaces = {s1, s2}
  Coords = {0, 1}
SPECIFICATION Spec
INVARIANT TypeOK
