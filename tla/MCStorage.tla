------------------------------ MODULE MCStorage ------------------------------
(* Contents of the EEPROM for Storage: a new chip, and the versions 10, 11 and 12. *)
EXTENDS Storage

MCSettings == <<3, 2>>
MCParams == <<5, 6>>
MCCoord == <<0, 1>>

Erased == [a \in Addresses |-> Base - 1]
Written(e, writes) ==
  FoldLeft(LAMBDA image, w : [image EXCEPT ![w.addr] = w.byte], e, writes)

\* A chip in use: settings s of the given version, coordinates, a line.
Used(version, s) ==
  Written(Erased, PutRecord("settings", GlobalAddr, s) \o PutRecord("coord", CoordAddr, <<1, 2>>)
                  \o PutRecord("line", LineAddr, <<1, 0>>) \o <<Put("settings", 0, version)>>)

MCImages == {Erased, Used(10, <<1, 1>>), Used(11, <<1, 1, 7>>),
             Written(Used(12, <<3, 1>>),
                     <<Put("params", HeaderAddr, Header), Put("params", SizeAddr, 1)>>
                     \o PutRecord("params", ParamsAddr, <<2>>))}
==============================================================================
