----------------------------- MODULE WindowsMC -----------------------------
EXTENDS Windows

Msdk == [api |-> V(1, 35), media |-> "discrete", partial |-> FALSE]
MC_Lib == {"vpl", "msdk", "old", "sw", "part"}
MC_Runtime ==
    [vpl |-> [api |-> VPL, media |-> "integrated", partial |-> FALSE], msdk |-> Msdk,
     old |-> [api |-> V(1, 8), media |-> "unknown", partial |-> FALSE],
     sw |-> [api |-> V(1, 30), media |-> "unknown", partial |-> FALSE],
     part |-> [Msdk EXCEPT !.partial = TRUE]]

Empty ==
    [adapter |-> [a \in 0..3 |-> IF a = 0 THEN "intel" ELSE "none"], folder |-> [f \in Folder |-> None],
     key |-> [k \in Key |-> <<>>], default |-> [t \in {"hw", "sw"} |-> None]]
K(device, merit, lib) == [device |-> device, merit |-> merit, lib |-> lib]

\* keys of equal merit, of merit 0 and of another device, and a software key
Registry ==
    [Empty EXCEPT !.key["user"] = << K(1, 2, "old"), K(1, 5, "msdk"), K(1, 5, "vpl"), K(2, 7, "vpl"), K(1, 0, "vpl") >>,
                  !.key["machine"] = << K(0, 3, "sw"), K(0, 3, "old") >>]
\* a library in the driver store of an older API, newer ones elsewhere
Folders ==
    [Empty EXCEPT !.folder["msdk"] = "msdk", !.folder["vpl"] = "vpl", !.folder["app"] = "old",
                  !.default["hw"] = "part", !.default["sw"] = "sw"]
\* a second Intel adapter beside one of another vendor
SecondAdapter ==
    [Empty EXCEPT !.adapter[0] = "other", !.adapter[1] = "intel", !.folder["app"] = "vpl",
                  !.key["machine"] = << K(2, 1, "msdk"), K(1, 1, "vpl") >>, !.default["sw"] = "old"]
Partly == [Empty EXCEPT !.folder["module"] = "msdk", !.default["hw"] = "part"]

MC_Installations == {Empty, Registry, Folders, SecondAdapter, Partly}
MC_Methods == {"AUTO", "AUTO_ANY", "SOFTWARE", "HARDWARE2"}
MC_Versions == {V(1, 0), V(1, 19), V(2, 0)}
=============================================================================
