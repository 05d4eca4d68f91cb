---------------------------- MODULE MC_Services ----------------------------
(* One child, two sessions, and tables as small as the cases allow: a second
   row where the code looks for a second row, one where it does not. *)
EXTENDS Services, TLC

(* The services that jobs and alarms drive, for the liveness properties. *)
Scheduled == {"data rights", "retention", "automatic rules", "uplink"}

OnlyRetention == {"retention"}

(* Nothing tells one session from another. *)
Symmetry == Permutations(Worker)

MCExtensionLimit == [m \in Member |-> 1]

(* The second minute is of the first day, but of the second where the device is. *)
MCUtcDay == <<1, 1, 2>>
MCLocalDay == <<1, 2, 2>>
=============================================================================
