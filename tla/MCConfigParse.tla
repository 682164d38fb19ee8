---------------------------- MODULE MCConfigParse ----------------------------
EXTENDS ConfigParse

\* The units a hand-written Kernel64.txt holds: a path letter, a space and
\* the two line-end units.
MCUnits == {"a", SP, CR, LF}

\* Every file of a BOM and up to 4 further units, and one file of each
\* wrong first unit (big-endian BOM, no BOM).
MCFiles ==
  {[i \in 0..n |-> IF i = 0 THEN BOM_LE ELSE s[i]] : n \in 1..4, s \in [1..4 -> MCUnits]}
  \cup {[i \in 0..1 |-> IF i = 0 THEN BOM_BE ELSE "a"], [i \in 0..1 |-> "a"]}
=============================================================================
