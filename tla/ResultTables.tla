---------------------------- MODULE ResultTables ----------------------------
(***************************************************************************)
(* The scripts of artifact/ that fill a table with execution times.        *)
(*                                                                         *)
(* A script has one function per column.  The function gives all its runs  *)
(* to a pool of processes, gets what they have printed in the order in     *)
(* which it gave them, and looks for the line that has the time.  The      *)
(* variable for the time, exec_time, outlives the run it was set for.      *)
(* Then the columns are put side by side and appended to a file, which is  *)
(* read again for the plot.  The calls that measure are partly commented   *)
(* out under __main__; here they are in place.                             *)
(*                                                                         *)
(* A time is abstracted to the number of the run that it was taken from.   *)
(***************************************************************************)
EXTENDS Integers, Sequences, FiniteSets, SequencesExt

CONSTANTS
  commands,  \* how many benchmarks there are, len(cmd)
  trials,    \* common_util.trial
  MaxOdd,    \* bound on the runs that do not print what one expects
  Sessions   \* how often a script is executed

ASSUME RunsAssumption == commands \in Nat /\ trials \in Nat

VARIABLES
  table,    \* the script
  phase,    \* "off", "run", "write", "read", "plotted" or "raised"
  session,  \* how often it has been executed
  out,      \* what the runs of the present column have come to
  outs,     \* out of the columns that are complete
  lists,    \* the results of these columns
  file,     \* the csv file
  odd

tvars == <<table, phase, session, out, outs, lists, file, odd>>

-----------------------------------------------------------------------------
(***************************************************************************)
(* The functions that measure: what their runs print and how it is read.   *)
(***************************************************************************)
Column(prints, reads, starts, runs) ==
  [prints |-> prints, reads |-> reads, starts |-> starts, runs |-> runs]

Every == trials * commands

Unbound == [run |-> -1, number |-> FALSE]
Blank   == [run |-> 0, number |-> FALSE]

(* A line with the time, if the run printed any, and an entry in any case. *)
Reported(start) == Column("report", "always", start, Every)
(* An entry for each line with the time.                                   *)
OnLine == Column("report", "on_line", Unbound, Every)
(* The same for a line of /usr/bin/time, see LineRead.                     *)
Elapsed       == Column("elapsed", "elapsed", Unbound, Every)
ElapsedOrUser == Column("elapsed", "elapsed_or_user", Unbound, Every)

comparison_mvvm     == Reported(Unbound)
comparison_hcontainer == Elapsed
comparison_qemu_x86_64 == Elapsed
comparison_qemu_aarch64 == Elapsed
comparison_native   == Elapsed

comparison_mac_mvvm == Reported(Unbound)
comparison_mac_hcontainer == ElapsedOrUser
comparison_mac_qemu_x86_64 == Elapsed
comparison_mac_qemu_aarch64 == ElapsedOrUser
comparison_mac_native == ElapsedOrUser

gapbs_mvvm          == Reported(Unbound)
gapbs_native        == Elapsed
gapbs_qemu_x86_64   == Elapsed
gapbs_qemu_aarch64  == Elapsed

gapbs_mac_mvvm         == Reported(Unbound)
gapbs_mac_native       == Elapsed
gapbs_mac_qemu_x86_64  == Elapsed
gapbs_mac_qemu_aarch64 == Elapsed

mac_mvvm   == OnLine
mac_native == Column("elapsed", "user", Unbound, Every)

(* The runs are put into the list that is returned, not into the one that  *)
(* is read afterwards.  The timeout of 100 s makes no difference: leaving  *)
(* the executor waits for the run all the same.                            *)
windows_mvvm   == OnLine
windows_native == Column("elapsed", "output", Unbound, Every)

burst_cloud    == Reported(Blank)
burst_edge     == Reported(Blank)
burst_snapshot == OnLine

optimistic_fasttier == Reported(Unbound)
optimistic_slowtier == Reported(Unbound)
(* Both this function and the one it calls repeat the measurement.         *)
optimistic_snapshot == Column("report", "always", Unbound, Every * trials)

(* The scripts whose columns are variants of the same benchmark: one       *)
(* function runs them all and sorts the times by the name of the variant.  *)
(* The list for ".aot" is that of the names which its test does not        *)
(* exclude.                                                                *)
aot_variant == <<"aot", "pure", "stack", "every_dirty", "loop", "loop_counter">>
(* Of the six counters, which are treated alike, the first and the last.   *)
aot_variant_freq == <<"counter_1", "counter_30", "pgo", "aot", "pure">>

OfVariants(variants) == Column("report", "always", Blank, Every * Len(variants))

policy_lists ==
  <<{"aot", "every_dirty"}, {"pure"}, {"stack"}, {"loop_counter"}, {"loop"}, {"loop_dirty"}>>
policy_mac_lists ==
  <<{"aot", "loop_counter"}, {"pure"}, {"stack"}, {"every_dirty"}, {"loop"}, {"loop_dirty"}>>
policy_multithread_lists ==
  <<{"aot", "every_dirty"}, {"pure"}, {"stack"}, {"loop_counter"}, {"loop"}, {"loop_dirty"}>>

ListPerVariant == [j \in DOMAIN aot_variant_freq |-> {aot_variant_freq[j]}]
loop_counter_lists  == ListPerVariant
loop_snapshot_lists == ListPerVariant

(***************************************************************************)
(* The scripts: the size of the pool, 0 if there is none; the columns; the *)
(* lists into which the runs of the only column are sorted, if any;        *)
(* whether the cells must be numbers for the table to be read.             *)
(***************************************************************************)
Joined(pool, columns, numbers) ==
  [pool |-> pool, columns |-> columns, variants |-> <<>>, sorted |-> <<>>, numbers |-> numbers]
Sorted(variants, sorted) ==
  [pool |-> 16, columns |-> <<OfVariants(variants)>>, variants |-> variants,
   sorted |-> sorted, numbers |-> TRUE]

bench_comparison == Joined(20,
  <<comparison_mvvm, comparison_hcontainer, comparison_qemu_x86_64,
    comparison_qemu_aarch64, comparison_native>>, TRUE)
bench_comparison_mac == Joined(10,
  <<comparison_mac_mvvm, comparison_mac_native, comparison_mac_qemu_x86_64,
    comparison_mac_qemu_aarch64, comparison_mac_hcontainer>>, TRUE)
bench_comparison_gapbs == Joined(20,
  <<gapbs_mvvm, gapbs_native, gapbs_qemu_x86_64, gapbs_qemu_aarch64>>, TRUE)
bench_comparison_gapbs_mac == Joined(20,
  <<gapbs_mac_mvvm, gapbs_mac_native, gapbs_mac_qemu_x86_64, gapbs_mac_qemu_aarch64>>, TRUE)
bench_mac     == Joined(0, <<mac_mvvm, mac_native>>, TRUE)
bench_windows == Joined(0, <<windows_mvvm, windows_native>>, TRUE)
usecase_burst == Joined(20, <<burst_cloud, burst_edge, burst_snapshot>>, FALSE)
usecase_optimistic == Joined(1,
  <<optimistic_fasttier, optimistic_slowtier, optimistic_snapshot>>, FALSE)
bench_policy             == Sorted(aot_variant, policy_lists)
bench_policy_mac         == Sorted(aot_variant, policy_mac_lists)
bench_policy_multithread == Sorted(aot_variant, policy_multithread_lists)
bench_loop_counter       == Sorted(aot_variant_freq, loop_counter_lists)
bench_loop_snapshot      == Sorted(aot_variant_freq, loop_snapshot_lists)

Scripts ==
  {bench_comparison, bench_comparison_mac, bench_comparison_gapbs, bench_comparison_gapbs_mac,
   bench_mac, bench_windows, usecase_burst, usecase_optimistic, bench_policy,
   bench_policy_mac, bench_policy_multithread, bench_loop_counter, bench_loop_snapshot}

-----------------------------------------------------------------------------
(***************************************************************************)
(* The runs.                                                               *)
(***************************************************************************)
Result(fate, lines) == [fate |-> fate, lines |-> lines]
NotEnded == Result("none", <<>>)

(* A run that succeeds prints one line with the time.  It may print none,  *)
(* for instance when the guest traps; bytes that are not UTF-8 are not     *)
(* decoded; the run may raise.  time(1) prints h:mm:ss from an hour on,    *)
(* and a line of the guest's own may have the word that one looks for.     *)
Expected(c) == Result("ended", IF c.prints = "report" THEN <<"report">> ELSE <<"short">>)
Odd(c) ==
  {Result("ended", <<>>), Result("bytes", <<>>), Result("raised", <<>>)}
    \cup IF c.prints = "report" THEN {}
         ELSE {Result("ended", <<"long">>), Result("ended", <<"day">>),
               Result("ended", <<"guest", "short">>)}

column == table.columns[Len(lists) + 1]
Ended(k) == out[k] # NotEnded
None(n) == [k \in 1..n |-> NotEnded]

(* The processes of the pool take the runs in the order in which they were *)
(* given: those that run are the first that have not ended.  Of the pool   *)
(* at most two are looked at, a slow one and a fast one.  Without a pool a *)
(* run begins when the one before has succeeded.                           *)
Width == IF table.pool > 1 THEN 2 ELSE 1

IsRunning(k) ==
  /\ ~Ended(k)
  /\ Cardinality({m \in 1..k - 1 : ~Ended(m)}) < Width
  /\ table.pool = 0 => \A m \in 1..k - 1 : out[m].fate # "raised"

EndRun(k) ==
  /\ phase = "run" /\ IsRunning(k)
  /\ \/ out' = [out EXCEPT ![k] = Expected(column)] /\ odd' = odd
     \/ odd < MaxOdd /\ \E r \in Odd(column) : out' = [out EXCEPT ![k] = r] /\ odd' = odd + 1
  /\ UNCHANGED <<table, phase, session, outs, lists, file>>

-----------------------------------------------------------------------------
(***************************************************************************)
(* Reading the time.                                                       *)
(***************************************************************************)
Own(k) == [run |-> k, number |-> TRUE]

Enter(acc)  == IF acc.time = Unbound THEN [acc EXCEPT !.ok = FALSE]
               ELSE [acc EXCEPT !.entries = Append(@, acc.time)]
Failed(acc) == [acc EXCEPT !.ok = FALSE]

(* "m:ss.cc" is understood.  For "h:mm:ss" an object is made and printed   *)
(* that exec_time is not set to.  From a day on even that fails, and the   *)
(* time is that of the user, as it is with elapsed_or_user from an hour    *)
(* on.                                                                     *)
LineRead(reads, acc, k, line) ==
  LET timed == [acc EXCEPT !.time = Own(k)] IN
  CASE reads = "always"  -> timed
    [] reads = "on_line" -> Enter(timed)
    [] reads = "elapsed" ->
         IF line = "guest" THEN Failed(acc)
         ELSE IF line = "long" THEN Enter(acc) ELSE Enter(timed)
    [] reads = "elapsed_or_user" -> IF line = "guest" THEN Enter(acc) ELSE Enter(timed)
    [] reads = "user"    -> IF line = "guest" THEN Failed(acc) ELSE timed
    [] OTHER             -> acc

(* The loop over the lines of a run.                                       *)
LinesRead(reads, acc, got) ==
  LET after[l \in 0..Len(got.lines)] ==
        IF l = 0 THEN acc ELSE LineRead(reads, after[l - 1], got.run, got.lines[l])
  IN after[Len(got.lines)]

(* Wrong: a run that prints no time has no entry.                          *)
EnterIfRead(reads, acc, got) ==
  LET read == LinesRead(reads, acc, got) IN
  IF got.fate = "bytes" THEN Failed(acc)
  ELSE IF reads \in {"always", "user"} /\ got.lines # <<>> THEN Enter(read)
  ELSE read

RunRead(reads, acc, got) ==
  LET read == LinesRead(reads, acc, got) IN
  IF got.fate = "bytes" /\ reads # "output" THEN Failed(acc)
  ELSE IF reads \in {"always", "user"} THEN Enter(read)
  ELSE IF reads = "output"
       THEN [acc EXCEPT !.entries = Append(@, [run |-> got.run, number |-> FALSE])]
  ELSE read

(* results1 = [x.get() for x in results1]                                  *)
Got(k) == [run |-> k, fate |-> out[k].fate, lines |-> out[k].lines]

(* The loop over the runs.                                                 *)
Start(c) == [time |-> c.starts, entries |-> <<>>, ok |-> TRUE]

Read(c) ==
  LET after[k \in 0..c.runs] ==
        IF k = 0 THEN Start(c) ELSE RunRead(c.reads, after[k - 1], Got(k))
  IN after[c.runs]

(* Wrong: a run that raised counts as one that printed nothing.            *)
Forgiving(k) == FALSE

GetRaises(k) == out[k].fate = "raised"

(* The first run that has raised ends the script, even if others still run.*)
SomeGetRaises ==
  /\ phase = "run"
  /\ \E k \in DOMAIN out : GetRaises(k) /\ \A m \in 1..k : Ended(m)
  /\ phase' = "raised"
  /\ UNCHANGED <<table, session, out, outs, lists, file, odd>>

GetAll ==
  /\ phase = "run"
  /\ \A k \in DOMAIN out : Ended(k) /\ ~GetRaises(k)
  /\ LET read == Read(column) IN
       IF ~read.ok THEN phase' = "raised" /\ UNCHANGED <<out, outs, lists>>
       ELSE /\ lists' = Append(lists, read.entries)
            /\ outs' = Append(outs, out)
            /\ IF Len(lists') = Len(table.columns)
               THEN phase' = "write" /\ out' = <<>>
               ELSE phase' = "run" /\ out' = None(table.columns[Len(lists') + 1].runs)
  /\ UNCHANGED <<table, session, file, odd>>

-----------------------------------------------------------------------------
(***************************************************************************)
(* The file.                                                               *)
(***************************************************************************)
Header(s)     == [session |-> s, header |-> TRUE, cells |-> <<>>]
Row(s, cells) == [session |-> s, header |-> FALSE, cells |-> cells]

(* The entries of the runs of these variants: there is one for each run.   *)
PlacesOf(variants) ==
  {k \in 1..Len(lists[1]) : table.variants[((k - 1) % Len(table.variants)) + 1] \in variants}

Nth(places, i) == CHOOSE k \in places : Cardinality({l \in places : l <= k}) = i

EntriesOf(variants) ==
  [i \in 1..Cardinality(PlacesOf(variants)) |-> lists[1][Nth(PlacesOf(variants), i)]]

RowsOf(columns, n) == [i \in 1..n |-> Row(session, [j \in DOMAIN columns |-> columns[j][i]])]

Shortest(columns) == CHOOSE n \in {Len(columns[j]) : j \in DOMAIN columns} :
                       \A j \in DOMAIN columns : n <= Len(columns[j])

(* There are as many rows as the first column has entries.  When another   *)
(* is shorter, an IndexError ends the script after the rows before.  zip   *)
(* stops at the shortest list.                                             *)
write_to_csv ==
  /\ phase = "write"
  /\ LET sorted  == table.sorted # <<>>
         columns == IF sorted THEN [j \in DOMAIN table.sorted |-> EntriesOf(table.sorted[j])]
                    ELSE lists
         n == Shortest(columns)
     IN /\ file' = file \o <<Header(session)>> \o RowsOf(columns, n)
        /\ phase' = IF ~sorted /\ n < Len(columns[1]) THEN "raised" ELSE "read"
  /\ UNCHANGED <<table, session, out, outs, lists, odd>>

(* next(reader), then float() of each cell, of the header too that a later *)
(* session has appended.                                                   *)
read_from_csv ==
  /\ phase = "read"
  /\ phase' =
       IF /\ table.numbers
          /\ \E i \in 2..Len(file) :
               file[i].header \/ \E j \in DOMAIN file[i].cells : ~file[i].cells[j].number
       THEN "raised" ELSE "plotted"
  /\ UNCHANGED <<table, session, out, outs, lists, file, odd>>

Execute(t) ==
  /\ table' = t /\ phase' = "run" /\ session' = session + 1
  /\ out' = None(t.columns[1].runs)
  /\ outs' = <<>> /\ lists' = <<>>

Again ==
  /\ phase \in {"plotted", "raised"} /\ session < Sessions
  /\ Execute(table)
  /\ UNCHANGED <<file, odd>>

NoTable == Joined(0, <<>>, FALSE)

Off ==
  /\ table = NoTable /\ phase = "off" /\ session = 0
  /\ out = <<>> /\ outs = <<>> /\ lists = <<>>
  /\ file = <<>> /\ odd = 0

TInit ==
  /\ table \in Scripts /\ phase = "run" /\ session = 1
  /\ out = None(table.columns[1].runs)
  /\ outs = <<>> /\ lists = <<>>
  /\ file = <<>> /\ odd = 0

TNext ==
  \/ \E k \in DOMAIN out : EndRun(k)
  \/ SomeGetRaises \/ GetAll \/ write_to_csv \/ read_from_csv \/ Again

TSpec == TInit /\ [][TNext]_tvars

-----------------------------------------------------------------------------
Ours == {i \in DOMAIN file : file[i].session = session /\ ~file[i].header}

(* The column that a cell comes from, and the run that should have it.     *)
ColumnOf(j) == IF table.sorted = <<>> THEN j ELSE 1
RunFor(i, j) ==
  IF table.sorted = <<>> THEN i
  ELSE (i - 1) * Len(table.variants)
         + CHOOSE v \in DOMAIN table.variants : table.variants[v] \in table.sorted[j]

(* The time of a benchmark stands in the row of that benchmark: the i-th   *)
(* cell of a column is that of the i-th run, provided that this run and    *)
(* those before made one entry each, and if this run printed no time that  *)
(* is understood then it is an earlier one's (run_*, write_to_csv).        *)
OneEntry(c, r) == c.reads \in {"always", "user", "output"} \/ Len(r.lines) = 1
Understood(c, r) ==
  \/ c.reads = "output"
  \/ \E l \in DOMAIN r.lines : r.lines[l] # "guest" /\ (c.reads = "elapsed" => r.lines[l] # "long")

CellsAreTheRowsOwn ==
  \A row \in Ours : \A j \in DOMAIN file[row].cells :
    LET i    == row - CHOOSE h \in DOMAIN file : file[h] = Header(session)
        k    == RunFor(i, j)
        c    == table.columns[ColumnOf(j)]
        runs == outs[ColumnOf(j)]
        cell == file[row].cells[j]
    IN (\A m \in 1..k : OneEntry(c, runs[m])) =>
         IF Understood(c, runs[k]) THEN cell.run = k ELSE cell.run < k

(* A script that loses a run writes no row: neither what the other columns *)
(* have measured nor part of this one (x.get, write_to_csv).               *)
NoTableOfAFailedMeasurement ==
  LET lost(runs) == \E k \in DOMAIN runs : runs[k].fate = "raised"
  IN lost(out) \/ (\E c \in DOMAIN outs : lost(outs[c])) => Ours = {}
=============================================================================
