---------------------------- MODULE MCObjectStream ----------------------------
(* Scripts and tables for ObjectStream: the mission loads the world, one   *)
(* script reloads the vehicles, one asks for the four kinds of hack data.  *)
EXTENDS ObjectStream
TheStreams ==
  [mission |-> <<"Object", "Vehicle", "House", "Trap">>,
   garage |-> <<"Vehicle">>,
   watch |-> <<"Custom", "Custom", "Custom", "Custom">>]
TheRows == [Object |-> 3, Vehicle |-> 2, House |-> 1, Trap |-> 0, Custom |-> 0]
=============================================================================
