---------------------------- MODULE MC_ScopeScan ----------------------------
(* ScopeScan on one resource, two regions and two resource types.           *)
EXTENDS ScopeScan

MCScopeOf == [r \in Resources |-> <<"eu", "volume">>]
MCTarget(regions, types, dry) == [regions |-> regions, types |-> types, dry |-> dry]

\* One type in two regions, taken in either order, and in one region alone; two
\* types of one region, dry.
MCTargets == {
  MCTarget(<<"eu">>, <<"volume">>, FALSE),
  MCTarget(<<"us", "eu">>, <<"volume">>, FALSE),
  MCTarget(<<"eu", "us">>, <<"volume">>, FALSE),
  MCTarget(<<"eu">>, <<"snapshot", "volume">>, TRUE)}
=============================================================================
