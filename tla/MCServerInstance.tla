-------------------------- MODULE MCServerInstance --------------------------
(* Small instances of ServerInstance for TLC.                              *)
EXTENDS ServerInstance, TLC

MCSymmetry == Permutations(Processes)

Plain == {<<>>, <<"--name", "Skylar">>, <<"--maxmemory", "64", "-", "--name", "Skylar">>}

(* Forced starts, one whose --force comes right behind a name, and one of  *)
(* a server of another name.                                               *)
Forced == Plain \cup {<<"--force">>, <<"-", "-", "--force">>, <<"--name", "Skylar", "--force">>,
                      <<"--name", "Skylar", "-", "--name", "--force">>}
=============================================================================
