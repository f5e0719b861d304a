---------------------------- MODULE ResultCache ----------------------------
(***************************************************************************)
(* The files of the result cache: save writes <key>.tmp and renames it to  *)
(* <key>.json, load reads <key>.json. Several processes share the          *)
(* directory; within one process a save is not interrupted, since it       *)
(* contains no await. Writers of one key share the temporary file: a       *)
(* rename moves whatever is written there, even while another process      *)
(* still has it open.                                                      *)
(***************************************************************************)
EXTENDS Naturals

CONSTANTS
    Keys,       \* cache keys
    Payloads,   \* what is cached, as a value
    Size,       \* length of the text of each payload, at least 1
    Writers     \* processes that save

VARIABLES
    entry,      \* the text of <key>.json
    temp,       \* the text of <key>.tmp
    writer      \* the save that each process is in

cacheVars == <<entry, temp, writer>>

\* A text that is not whole is cut ("empty" or "garbled": not JSON) or begins
\* a character in its middle ("undecodable": not UTF-8).
NoText == [state |-> "absent", size |-> 0, payload |-> {}]
Empty == [state |-> "empty", size |-> 0, payload |-> {}]
Whole(p) == [state |-> "whole", size |-> Size[p], payload |-> {p}]
Damaged(n) == {[state |-> s, size |-> n, payload |-> {}] : s \in {"garbled", "undecodable"}}

\* link: the name that the file the process has open goes by now.
NotSaving == [link |-> "closed", key |-> {}, payload |-> {}, written |-> FALSE]

CacheInit ==
    /\ entry = [k \in Keys |-> NoText]
    /\ temp = [k \in Keys |-> NoText]
    /\ writer = [w \in Writers |-> NotSaving]

\* A fault: the entry itself is opened, without a temporary file.
OpenTemp_inPlace(w, k, p) ==
    /\ entry' = [entry EXCEPT ![k] = Empty]
    /\ writer' = [writer EXCEPT ![w] =
                    [link |-> "entry", key |-> {k}, payload |-> {p}, written |-> FALSE]]
    /\ temp' = [temp EXCEPT ![k] = Empty]

\* open("w"): creates the temporary file or empties the one that is there.
OpenTemp(w, k, p) ==
    /\ temp' = [temp EXCEPT ![k] = Empty]
    /\ writer' = [writer EXCEPT ![w] =
                    [link |-> "temp", key |-> {k}, payload |-> {p}, written |-> FALSE]]
    /\ UNCHANGED entry

\* A shorter text over a longer one leaves the end of the longer.
Overwritten(old, p) == IF old.size > Size[p] THEN Damaged(old.size) ELSE {Whole(p)}

\* The text is written at once, to wherever the open file is linked by now.
WriteText(w) ==
    /\ writer[w].link # "closed" /\ ~writer[w].written
    /\ writer' = [writer EXCEPT ![w].written = TRUE]
    /\ \E k \in writer[w].key, p \in writer[w].payload :
         CASE writer[w].link = "temp" ->
                /\ \E t \in Overwritten(temp[k], p) : temp' = [temp EXCEPT ![k] = t]
                /\ UNCHANGED entry
           [] writer[w].link = "entry" ->
                /\ \E t \in Overwritten(entry[k], p) : entry' = [entry EXCEPT ![k] = t]
                /\ UNCHANGED temp
           [] OTHER -> UNCHANGED <<entry, temp>>

\* temp.replace(path): the other files that are open follow their links. When
\* another process has renamed the temporary file, there is none to rename.
Rename(w) ==
    /\ writer[w].written
    /\ \E k \in writer[w].key :
         /\ temp[k].state # "absent"
         /\ entry' = [entry EXCEPT ![k] = temp[k]]
         /\ temp' = [temp EXCEPT ![k] = NoText]
         /\ writer' = [v \in Writers |->
              IF v = w THEN NotSaving
              ELSE IF writer[v].key # {k} THEN writer[v]
              ELSE [writer[v] EXCEPT !.link = CASE @ = "temp" -> "entry"
                                                [] @ = "entry" -> "unlinked"
                                                [] OTHER -> @]]

Abandon(w) == writer' = [writer EXCEPT ![w] = NotSaving]

\* A text that is not JSON is a miss, one that is not UTF-8 raises (Poisoned).
Load(k) == entry[k].payload
Poisoned(k) == entry[k].state = "undecodable"
=============================================================================
