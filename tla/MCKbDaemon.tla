----------------------------- MODULE MCKbDaemon -----------------------------
(***************************************************************************)
(* Up to three roots: periodic ones only, an entrypoint before, after and    *)
(* between periodic ones, an entrypoint alone, a PERIOD without a unit.       *)
(***************************************************************************)
EXTENDS KbDaemon

LOCAL P == "PERIODIC"
LOCAL N == "PERIODIC, no unit"
LOCAL E == "ENTRYPOINT"
MCRootLists == {<<P>>, <<P, P>>, <<P, E>>, <<E, P>>, <<E>>, <<P, E, P>>, <<N>>, <<P, N>>}
MCStatuses == {0, 256, -1}
=============================================================================
