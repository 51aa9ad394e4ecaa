----------------------------- MODULE PortConfig -----------------------------
(***************************************************************************)
(* The browser-port configuration of the proxy: port_config.c and the      *)
(* select_port callback of ios_webkit_debug_proxy_main.c.                  *)
(*                                                                         *)
(* The text of a line is abstracted to the sequence of its comma-separated *)
(* items: an item is an Entry when the regular expression of pc_parse      *)
(* accepts it and Garbage when it does not.                                *)
(***************************************************************************)
EXTENDS Integers, Sequences, SequencesExt

CONSTANTS
  Device,      \* the ids of the devices that can be attached
  DeviceList,  \* the NULL device id: the port that lists the devices
  Star,        \* the "*" of an entry, also what a missing id stands for
  Garbage      \* an item that does not parse

Id == Device \cup {DeviceList}

(* min and max may be negative: "-1" disables a device. *)
Entry == [device: Id \cup {Star}, min: Int, max: Int]

(* pc_add_line appends the entries of a line up to the first item that does
   not parse; it reports an error when there is such an item. *)
LineError(line) == \E i \in DOMAIN line : line[i] = Garbage

AddLine(entries, line) ==
  LET bad == SelectInSeq(line, LAMBDA item : item = Garbage)
  IN  entries \o (IF bad = 0 THEN line ELSE SubSeq(line, 1, bad - 1))

(* pc_add_file keeps what every line yields and ignores the errors. *)
AddFile(lines) == FoldLeft(AddLine, <<>>, lines)

(* The command line names either the entries themselves or, when they do not
   all parse, a file that is read again at every call. *)
Entries(arg, file) == IF LineError(arg) THEN AddFile(file) ELSE AddLine(<<>>, arg)

(* pc_find: an entry for every device matches the device list too, and the
   first entry that matches wins; 0 when none does. *)
Find(entries, id) == SelectInSeq(entries, LAMBDA e : e.device \in {Star, id})

(* pc_select_port: no entry is an error; a preferred port outside the range of
   the entry is dropped. *)
SelectPort(entries, id, port) ==
  LET entry == entries[Find(entries, id)]
  IN  IF Find(entries, id) = 0
      THEN [err |-> TRUE, port |-> -1, min |-> -1, max |-> -1]
      ELSE [err  |-> FALSE,
            port |-> IF port >= 0 /\ port \notin entry.min..entry.max
                     THEN -1 ELSE port,
            min  |-> entry.min,
            max  |-> entry.max]
=============================================================================
