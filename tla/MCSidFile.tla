----------------------------- MODULE MCSidFile -----------------------------
(* Values of SidFile's constants.                                          *)
EXTENDS SidFile, TLC

MCItems == 0 .. 2

MCRangeArgs == {<<0, 2>>, <<2, 1>>}

Import(date, loaded, found) == [date |-> date, loaded |-> loaded, found |-> found]

MCImports == {NoImport, Import(1, {1}, {1, 2}), Import(0, {2}, {2})}

Item(sid, status) == [sid |-> sid, status |-> status]

(* A file with a gap and an obsolete item, one whose ranges overlap, one   *)
(* with a number outside of its range, one with a number given twice, one  *)
(* without its mandatory keys.                                             *)
Gap == [state |-> "whole", rev |-> 1, dep |-> 0, ranges |-> << <<2, 1>>, <<0, 2>> >>,
        items |-> (0 :> Item(1, "stable") @@ 2 :> Item(2, "obsolete"))]

MCFound ==
  {Gap,
   [Gap EXCEPT !.ranges = Append(@, <<1, 1>>)],
   [Gap EXCEPT !.items[2].sid = 5],
   [Gap EXCEPT !.items[2].sid = 1],
   [Gap EXCEPT !.state = "malformed"]}

=============================================================================
