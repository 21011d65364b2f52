--------------------------- MODULE DirectoryEntry ---------------------------
(***************************************************************************)
(* The directory entry of one cache line, under the five sharer-tracking   *)
(* schemes of directory_schemes/.  The coherence protocols only reach an   *)
(* entry through the operators defined here.                               *)
(*                                                                         *)
(*   sharers   the tiles the entry names: the bit vector of a full map,    *)
(*             the hardware slots _sharers[0.._max_hw_sharers-1] of the    *)
(*             limited schemes, the software bit vector of limitless       *)
(*   overflow  _global_enabled (limited_broadcast, ackwise) or             *)
(*             _software_trap_enabled (limitless)                          *)
(*   extra     _num_untracked_sharers (ackwise) or _num_sharers            *)
(*             (limited_broadcast); 0 otherwise                            *)
(***************************************************************************)
EXTENDS Integers, FiniteSets

CONSTANTS Tiles,          \* every tile of the target machine
          Scheme,         \* the configured directory_type
          MaxHwSharers,   \* the configured max_hw_sharers
          NULL            \* INVALID_TILE_ID, INVALID_ADDRESS, a NULL buffer

Schemes == {"full_map", "limited_no_broadcast", "limited_broadcast",
            "ackwise", "limitless"}

ASSUME SchemeAssumption == Scheme \in Schemes
ASSUME MaxHwSharersAssumption == MaxHwSharers \in Nat \ {0}
ASSUME TilesFiniteAssumption == IsFiniteSet(Tiles)
ASSUME NullNoTileAssumption == NULL \notin Tiles

DStates == {"UNCACHED", "SHARED", "MODIFIED"}

Entries == [dstate : DStates, owner : Tiles \cup {NULL}, sharers : SUBSET Tiles,
            overflow : BOOLEAN, extra : Int]

NewEntry == [dstate |-> "UNCACHED", owner |-> NULL, sharers |-> {},
             overflow |-> FALSE, extra |-> 0]

\* Whether the hardware slots are all taken: only then does
\* DirectoryEntryLimited::addSharer return false.
SlotsFull(e) == Cardinality(e.sharers) >= MaxHwSharers

\* A further sharer is counted or recorded elsewhere once the slots are full.
Overflowing(e) == \/ Scheme # "full_map" /\ e.overflow
                  \/ Scheme \in {"limited_broadcast", "ackwise", "limitless"} /\ SlotsFull(e)

\* The boolean addSharer returns: FALSE asks for an eviction first.
AddSharerSucceeds(e) == Scheme = "limited_no_broadcast" => ~SlotsFull(e)

\* What addSharer(t) leaves in the entry when it succeeds.
AddSharer_LastSlotLost(e, t) ==
    IF Cardinality(e.sharers) + 1 >= MaxHwSharers THEN e ELSE [e EXCEPT !.sharers = @ \cup {t}]
AddSharer(e, t) ==
    CASE Scheme = "limitless" ->
             [e EXCEPT !.sharers = @ \cup {t}, !.overflow = Overflowing(e)]
      [] Scheme = "ackwise" /\ Overflowing(e) ->
             [e EXCEPT !.overflow = TRUE, !.extra = @ + 1]
      [] Scheme = "limited_broadcast" /\ e.overflow -> e
      [] Scheme = "limited_broadcast" /\ Overflowing(e) /\ ~e.overflow ->
             [e EXCEPT !.overflow = TRUE, !.extra = Cardinality(Tiles)]
      [] OTHER -> [e EXCEPT !.sharers = @ \cup {t}]

\* The asserts of addSharer: the sharer is not yet recorded.
AddSharerAssert(e, t) ==
    (Scheme \in {"full_map", "limitless"} \/ ~e.overflow) => t \notin e.sharers

\* removeSharer(t), called without reply_expected.
RemoveSharer(e, t) ==
    IF Scheme = "ackwise" /\ e.overflow /\ t \notin e.sharers
    THEN [e EXCEPT !.extra = @ - 1, !.overflow = (e.extra # 1)]
    ELSE [e EXCEPT !.sharers = @ \ {t}]

\* The asserts of removeSharer.
RemoveSharerAssert(e, t) ==
    CASE Scheme = "ackwise" /\ e.overflow -> e.extra > 0
      [] Scheme = "limited_broadcast" /\ e.overflow -> TRUE
      [] OTHER -> t \in e.sharers

\* removeSharer(t, true): the reply to a broadcast invalidation, which only
\* limited_broadcast expects.
RemoveSharerReply(e, t) ==
    [e EXCEPT !.sharers = @ \ {t}, !.extra = @ - 1, !.overflow = (e.extra # 1)]

\* getNumSharers
NumSharers(e) ==
    CASE Scheme = "ackwise" -> Cardinality(e.sharers) + e.extra
      [] Scheme = "limited_broadcast" /\ e.overflow -> e.extra
      [] OTHER -> Cardinality(e.sharers)

\* The boolean getSharersList returns: invalidations go to every tile.
\* DirectoryEntryLimited, which limited_no_broadcast inherits, returns true.
AllTilesSharers(e) == \/ Scheme = "limited_no_broadcast"
                      \/ Scheme \in {"limited_broadcast", "ackwise"} /\ e.overflow

\* The tiles an invalidation of the line is sent to.
InvTargets(e) == IF AllTilesSharers(e) THEN Tiles ELSE e.sharers

=============================================================================
