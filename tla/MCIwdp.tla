------------------------------- MODULE MCIwdp -------------------------------
(* Instances of Iwdp for TLC. *)
EXTENDS Iwdp

CONSTANTS d1, d2, sim

(* One item of a line, "<device>:min-max"; "null" is the device list. *)
For(i, min, max) == [device |-> i, min |-> min, max |-> max]

(* The command line gives the entries: one device; neither the simulator nor the
   device list has a port. *)
OneDevice == {Entries(<<For(d1, 1, 1)>>, <<>>)}

(* The command line names a file: the device list, then every device; and when it
   has been edited, no port for the simulator, port 3 only for d2, and another
   range for the others.  What follows a mistake in a line is ignored. *)
DefaultFile == << <<For(DeviceList, 1, 1), For(Star, 2, 3)>> >>
EditedFile == << <<For(sim, -1, -1), Garbage, For(Star, 1, 1)>>, <<Garbage>>,
                 <<For(d2, 3, 3), For(DeviceList, 1, 1)>>, <<For(Star, 2, 2)>> >>
TwoConfigs == {Entries(<<Garbage>>, file) : file \in {DefaultFile, EditedFile}}

Symmetric == Permutations(Client) \cup Permutations(PageId) \cup Permutations(App)
               \cup Permutations(Fetch)

(* What the sessions left open were is never read again, neither by an action nor
   by a property: states that differ in nothing else are one. *)
View == <<listener, entries, taken, iport, iwi, iws, ifs,
          [p \in PageRef |-> [ipage[p] EXCEPT !.sessions = @ \ {Gone, Lost}]]>>
=============================================================================
