---- MODULE MCMeterFeed ----
EXTENDS MeterFeed, TLC
MCStride == [g \in Geometries |-> IF g = CHOOSE h \in Geometries : TRUE THEN 2 ELSE 1]
====
