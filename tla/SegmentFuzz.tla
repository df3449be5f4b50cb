---------------------------- MODULE SegmentFuzz ----------------------------
(***************************************************************************)
(* The structure-aware fuzz target of open-wal (fuzz_targets/structure.rs): *)
(* a segment of a few valid records with one localized damage, or with a    *)
(* second record under the last LSN, is given to recover_segment twice, and *)
(* the verdict is compared with what the shape of the segment calls for.    *)
(* TLC takes every scenario within the bounds where the fuzzer samples.     *)
(*                                                                          *)
(* Recovery itself is Segment's; a flipped byte makes its cell Junk.  The   *)
(* target opens an active segment; recover_segment_classify (src/lib.rs)    *)
(* also asks for the verdict on a sealed one, and so do the scenarios here. *)
(***************************************************************************)
EXTENDS Segment

CONSTANTS
    MaxRecords,     \* records of a scenario at most
    MaxZeros,       \* trailing zero cells at most
    NoPayload       \* not a payload: there is no duplicate of the last LSN

ASSUME FuzzAssumption == NoPayload \notin Payloads

VARIABLES
    scenario,       \* what the fuzzer chose
    attempt,        \* the open that is next or running: 1, 2, or 3 when done
    class           \* the verdict of each open

fuzzVars == <<vars, scenario, attempt, class>>

-----------------------------------------------------------------------------
(* Scenarios.                                                               *)

(* What the mutations do to the cells of a record of n cells: a flipped CRC *)
(* or an enlarged length is in cell 0, a zeroed record type leaves cell 2   *)
(* zero or not, a reserved record type with its new CRC changes cells 0 and *)
(* 2, a body or padding byte lies anywhere.                                 *)
Damages(n) ==
    {[cells |-> {k}, to |-> Junk] : k \in 0..(n - 1)}
        \cup {[cells |-> {0, 2}, to |-> Junk], [cells |-> {2}, to |-> Zero]}

NoDamage == [cells |-> {}, to |-> Junk]

Runs == UNION {[1..n -> Payloads] : n \in 0..MaxRecords}

(* Clean runs, runs with one damaged record, and runs up to the last LSN    *)
(* with a second record under it.                                           *)
Choose(s) ==
    \E run \in Runs, zeros \in 0..MaxZeros, active \in BOOLEAN :
        LET Is(target, damage, dup) ==
                s = [run |-> run, target |-> target, damage |-> damage, dup |-> dup,
                     zeros |-> zeros, active |-> active]
        IN  /\ Len(run) <= Capacity
            /\ \/ Is(0, NoDamage, NoPayload)
               \/ \E t \in DOMAIN run : \E d \in Damages(Frame(run[t])) : Is(t, d, NoPayload)
               \/ /\ Len(run) = Capacity
                  /\ \E p \in Payloads : Is(0, NoDamage, p)

(* Where the records of the scenario's run start.                           *)
StartOf(i) == Len(EncodeInto(0, i - 1))

Duplicate == scenario.dup # NoPayload

BuiltCells ==
    LET run == EncodeInto(0, Len(log))
        hit == {StartOf(scenario.target) + k : k \in scenario.damage.cells}
        dup == IF Duplicate
               THEN [k \in 1..Frame(scenario.dup) |-> Piece(MaxLsn, scenario.dup, k - 1)]
               ELSE <<>>
    IN  [c \in 1..Len(run) |-> IF scenario.target > 0 /\ c - 1 \in hit
                               THEN scenario.damage.to ELSE run[c]]
        \o dup \o [z \in 1..scenario.zeros |-> Zero]

-----------------------------------------------------------------------------
(* The harness.                                                             *)

FuzzInit ==
    /\ env \in Settings
    /\ Choose(scenario)
    /\ log = scenario.run
    /\ scenario.active \/ Len(log) > 0
    /\ \E built \in {BuiltCells} :
          /\ Len(built) <= SegmentCells
          /\ cache = Write([NewFile EXCEPT !.size = 0], 0, built)
    /\ disk = cache
    /\ pc = "closed" /\ max = 0 /\ offset = 0 /\ cursor = 0 /\ found = <<>>
    /\ durable = 0 /\ poisoned = FALSE /\ acked = 0 /\ cuts = 0
    /\ sealed = IF scenario.active THEN 0 ELSE Len(log)
    /\ attempt = 1 /\ class = <<>>

FuzzOpen ==
    /\ attempt < 3
    /\ Open
    /\ UNCHANGED <<scenario, attempt, class>>

(* SegClass: the verdict of recover_segment, in the step that reaches it.   *)
SegClass ==
    [kind |-> CASE pc' \in {"idle", "closed"} /\ pc = "scan" -> "Clean"
                [] pc' = "idle" /\ pc = "zero" -> "Truncated"
                [] pc' = "failed" /\ sealed = 0 /\ ~Exhausted -> "TornMidLog"
                [] OTHER -> "Corruption",
     offset |-> offset, run |-> found]

FuzzRecover ==
    /\ Recovery
    /\ IF pc' \in Recovering
       THEN UNCHANGED <<attempt, class>>
       ELSE /\ class' = Append(class, SegClass)
            /\ attempt' = IF pc' = "failed" THEN 3 ELSE attempt + 1
    /\ UNCHANGED scenario

FuzzClose ==
    /\ pc \in {"idle", "failed"}
    /\ CloseHandle
    /\ UNCHANGED <<scenario, attempt, class>>

FuzzNext == FuzzOpen \/ FuzzRecover \/ FuzzClose

(* The harness runs on to its end: nothing it does waits for anything.      *)
FuzzSpec == FuzzInit /\ [][FuzzNext]_fuzzVars /\ WF_fuzzVars(FuzzNext)

-----------------------------------------------------------------------------
(* What the shape of the segment calls for, without reading a cell of it:   *)
(* a damaged record is fatal in a sealed segment and wherever a record      *)
(* follows it, and the torn tail of an active one otherwise (D4, D5); a     *)
(* second record under the last LSN is corruption; a file that ends before  *)
(* the next header would is a truncated one, with nothing lost.             *)
Reference ==
    LET run == scenario.run
        m == scenario.target
        n == Len(run)
        start[i \in 0..n] == IF i = 0 THEN 0 ELSE start[i - 1] + Frame(run[i])
        whole == start[n]           \* the end of the whole run
        cut == scenario.zeros < HeaderCells /\ SegmentCells - whole >= HeaderCells
        Is(kind, i) == [kind |-> kind, offset |-> start[i], run |-> SubSeq(run, 1, i)]
    IN  IF Duplicate THEN Is("Corruption", n)
        ELSE IF m > 0 THEN Is(CASE ~scenario.active -> "Corruption"
                                [] scenario.active /\ m < n -> "TornMidLog"
                                [] scenario.active /\ m = n -> "Truncated", m - 1)
        ELSE Is(CASE ~cut -> "Clean"
                  [] cut /\ scenario.active -> "Truncated"
                  [] cut /\ ~scenario.active -> "Corruption", n)

(* The verdict of the first open, with the offset it names and the records  *)
(* it keeps, is the one the shape calls for: no interior corruption is      *)
(* truncated away, no torn tail is fatal, and the records kept are those    *)
(* that were built, in order.                                               *)
ClassifierCorrect == class # <<>> => class[1] = Reference

(* A second open of what the first one left finds the same records and a    *)
(* clean tail (D7, D10).                                                    *)
ReopenIsClean == Len(class) = 2 => class[2] = [class[1] EXCEPT !.kind = "Clean"]

(* Recovery is total: on every such segment it comes to a verdict (D11).    *)
Terminates == <>(attempt = 3)
=============================================================================
