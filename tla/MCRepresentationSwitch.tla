---------------------- MODULE MCRepresentationSwitch ----------------------
EXTENDS RepresentationSwitch

MCRepresentations == {"a1", "a2", "b1"}
MCAdaptationSets == {"A", "B"}
MCPeriods == {"p", "q"}
MCSetOf == [r \in MCRepresentations |-> IF r = "b1" THEN "B" ELSE "A"]
MCPeriodOf == [s \in MCAdaptationSets |-> IF s = "A" THEN "p" ELSE "q"]
===========================================================================
