----------------------------- MODULE MarketData -----------------------------
(***************************************************************************)
(* One fetch of a chain's market data: FallbackSourceChain asks its source *)
(* strategies one after the other until every symbol has a row.  A         *)
(* strategy looks its symbols up by token address, searches for the others *)
(* by name, and checks coverage, required symbols and the quality of what  *)
(* it found.  The lookups of a strategy run concurrently (asyncio.gather   *)
(* with return_exceptions); each answers, raises, or is cancelled, because *)
(* it waited for a shared request of which another waiter was cancelled    *)
(* (HttpClient, CancelFollower).                                           *)
(*                                                                         *)
(* A pool is what a provider tells of one market, relative to the symbol   *)
(* asked for: its base token is the token at the mapped address ("own"),   *)
(* another token of the same name ("namesake") or the other side of the    *)
(* market ("counter").                                                     *)
(***************************************************************************)
EXTENDS Integers, Sequences, FiniteSets

CONSTANTS
    Symbols,         \* <chain>_default_symbols
    Strangers,       \* symbols only <chain>_token_addresses names
    AddressOrder,    \* the order of the addresses in that setting
    ChunkSize,       \* addresses in one DexScreener request (20)
    Payloads,        \* what a lookup can answer: sequences of pools
    Blacklist,       \* dex_blacklist_ids
    DefaultRatio,    \* min_success_ratio, in percent
    MinAgeOverride,  \* this chain's entry of min_pair_age_seconds_by_chain
    MaxTurnoverOverride, \* and of max_volume_liquidity_ratio_by_chain, in tenths
    Configurations   \* the settings an instance is started with

Known == Symbols \cup Strangers
Kinds == {"dexscreener", "geckoterminal", "birdeye"}

\* An entry of a *_by_chain setting, as the parser leaves it.
Override == [given : BOOLEAN, valid : BOOLEAN, value : Int]

ASSUME MarketAssumption ==
    /\ Symbols # {} /\ Symbols \cap Strangers = {} /\ IsFiniteSet(Known)
    /\ AddressOrder \in Seq(Known)
    /\ ChunkSize \in Nat \ {0}
    /\ \A pools \in Payloads :
          /\ DOMAIN pools = 1 .. Len(pools) /\ Len(pools) \in Nat
          /\ \A i \in DOMAIN pools :
                pools[i].liquidity \in Nat /\ pools[i].base \in {"own", "namesake", "counter"}
    /\ DefaultRatio \in 0 .. 100
    /\ MinAgeOverride \in Override /\ MaxTurnoverOverride \in Override
    /\ \A c \in Configurations :
          /\ c.order \in Seq(Kinds) /\ c.order # <<>>
          /\ c.mapped \subseteq Known /\ c.listed \subseteq Known
          /\ c.strict \in BOOLEAN /\ c.ratio \in Override

VARIABLES
    conf,      \* the configuration of this chain
    source,    \* the source that is asked, or the next one to ask
    phase,     \* where the fetch is
    waiting,   \* the lookups that are out: sets of symbols
    pairs,     \* pairs_by_symbol of the source that is asked
    merged,    \* by_token
    failed,    \* source_errors is not empty
    outcome,   \* how the fetch ended
    \* history, read by the properties only
    returned,  \* returned[i]: the symbols source i returned rows for
    severed    \* the sources a lookup of which was cancelled

marketVars == <<conf, source, phase, waiting, pairs, merged, failed, outcome, returned, severed>>

NoPair == [via |-> "none", base |-> "none", fine |-> FALSE]
Severed == [via |-> "severed", base |-> "none", fine |-> FALSE]  \* a CancelledError in the place of a pair
Pairs == [via : {"address", "search"}, base : {"own", "namesake", "counter"}, fine : BOOLEAN]
NoRow == [source |-> 0, via |-> "none", base |-> "none"]
Sources == 1 .. Len(conf.order)

MarketTypeOK ==
    /\ conf \in Configurations
    /\ source \in 1 .. Len(conf.order) + 1
    /\ phase \in {"next", "addresses", "searches", "done"}
    /\ waiting \subseteq SUBSET Known
    /\ pairs \in [Known -> Pairs \cup {NoPair, Severed}]
    /\ merged \in [Symbols -> {NoRow} \cup [source : Nat \ {0}, via : {"address", "search"},
                                            base : {"own", "namesake", "counter"}]]
    /\ failed \in BOOLEAN
    /\ outcome \in {"none", "rows", "all_sources_failed", "incomplete_fallback", "raised"}
    /\ returned \in [Sources -> SUBSET Symbols]
    /\ severed \subseteq Sources

-----------------------------------------------------------------------------
(***************************************************************************)
(* IngestionSettings.                                                      *)
(***************************************************************************)
ChainOverride(raw, default, minimum) ==
    LET chosen == IF raw.given /\ raw.valid THEN raw.value ELSE default
    IN  IF chosen < minimum THEN minimum ELSE chosen

MinSuccessRatio ==
    LET ratio == ChainOverride(conf.ratio, DefaultRatio, 0)
    IN  IF ratio > 100 THEN 100 ELSE ratio

RequiredSymbols ==
    IF conf.listed # {} THEN conf.listed \cap Symbols
    ELSE IF conf.strict THEN Symbols ELSE {}

RequiredMapped == RequiredSymbols \subseteq conf.mapped

-----------------------------------------------------------------------------
(***************************************************************************)
(* The adapters: from pools to at most one pair of a symbol.               *)
(***************************************************************************)
Own(pools) == {i \in DOMAIN pools : pools[i].base = "own"}
Named(pools) == {i \in DOMAIN pools : pools[i].base \in {"own", "namesake"}}

\* The most liquid pool of those in question, the first of several.
Best(pools, of) ==
    pools[CHOOSE i \in of : \A j \in of :
             pools[j].liquidity < pools[i].liquidity \/ (pools[j].liquidity = pools[i].liquidity /\ i <= j)]
First(pools, of) == pools[CHOOSE i \in of : \A j \in of : i <= j]

\* DefaultPairQualityPolicy: an age of -1 is a pool without a creation time.
Acceptable(pool, volume) ==
    /\ pool.dex \notin Blacklist
    /\ pool.age >= 0 /\ pool.age >= ChainOverride(MinAgeOverride, 300, 0)
    /\ pool.price > 0
    /\ volume >= 0 /\ pool.liquidity >= 0
    /\ pool.liquidity > 0 => 10 * volume <= ChainOverride(MaxTurnoverOverride, 200, 1) * pool.liquidity

Normalized(pool, via, complete, volume) ==
    IF pool.priced /\ complete
    THEN [via |-> via, base |-> pool.base, fine |-> Acceptable(pool, volume)]
    ELSE NoPair

\* DexScreener tells the last five minutes; a pool without them is no pair.
DexPair(pools, of, via) ==
    IF of = {} THEN NoPair
    ELSE LET best == Best(pools, of)
         IN  Normalized(best, via, "m5" \in DOMAIN best.volume /\ "m5" \in best.trades,
                        IF "m5" \in DOMAIN best.volume THEN best.volume["m5"] ELSE 0)

\* GeckoTerminal: the shortest window it knows, scaled to five minutes.
GeckoVolume(volume) ==
    CASE "m5" \in DOMAIN volume -> volume["m5"]
      [] "m5" \notin DOMAIN volume /\ "h1" \in DOMAIN volume -> volume["h1"] \div 12
      [] {"m5", "h1"} \cap DOMAIN volume = {} /\ "h6" \in DOMAIN volume -> volume["h6"] \div 72
      [] {"m5", "h1", "h6"} \cap DOMAIN volume = {} /\ "h24" \in DOMAIN volume -> volume["h24"] \div 288
      [] OTHER -> 0

GeckoPair(pools, of, via) ==
    IF of = {} THEN NoPair
    ELSE LET best == Best(pools, of)
         IN  Normalized(best, via, DOMAIN best.volume # {} /\ {"m5", "h1"} \cap best.trades # {},
                        GeckoVolume(best.volume))

\* Birdeye tells of one token, and the last day only.
BirdeyePair(pools, of, via) ==
    IF of = {} THEN NoPair
    ELSE LET pool == First(pools, of)
         IN  Normalized(pool, via, "h24" \in DOMAIN pool.volume /\ "h24" \in pool.trades,
                        IF "h24" \in DOMAIN pool.volume THEN pool.volume["h24"] \div 288 ELSE 0)

\* What each adapter makes of an answer to a lookup by address ...
\* Broken variant: pools in which the token is the other side count as well.
DexByAddressAnySide(pools) == DexPair(pools, DOMAIN pools, "address")

DexByAddress(pools) == DexPair(pools, Own(pools), "address")
GeckoByAddress(pools) == GeckoPair(pools, DOMAIN pools, "address")
BirdeyeByAddress(pools) == BirdeyePair(pools, Own(pools), "address")

\* ... and to a search by name; Birdeye takes the first item of that name.
DexByName(pools) == DexPair(pools, Named(pools), "search")
GeckoByName(pools) == GeckoPair(pools, Named(pools), "search")
BirdeyeByName(pools) == BirdeyePair(pools, Named(pools), "search")

-----------------------------------------------------------------------------
MarketInit ==
    /\ conf \in Configurations
    /\ source = 1 /\ phase = "next" /\ waiting = {}
    /\ pairs = [s \in Known |-> NoPair]
    /\ merged = [s \in Symbols |-> NoRow]
    /\ failed = FALSE /\ outcome = "none"
    /\ returned = [i \in 1 .. Len(conf.order) |-> {}]
    /\ severed = {}

(***************************************************************************)
(* The chain.                                                              *)
(***************************************************************************)
Pending == {s \in Symbols : merged[s] = NoRow}

\* Anything but an IngestionFetchError leaves the chain.
Raises ==
    /\ outcome' = "raised" /\ phase' = "done" /\ waiting' = {}
    /\ pairs' = [s \in Known |-> NoPair]
    /\ UNCHANGED <<conf, source, merged, failed, returned, severed>>

\* Broken variant: a strategy reports its failed checks as a ValueError.
SourceFailsLoudly == Raises

SourceFails ==
    /\ failed' = TRUE
    /\ source' = source + 1 /\ phase' = "next" /\ waiting' = {}
    /\ pairs' = [s \in Known |-> NoPair]
    /\ UNCHANGED <<conf, merged, outcome, returned, severed>>

Finish ==
    /\ phase = "next" /\ (source \notin Sources \/ Pending = {})
    /\ phase' = "done"
    /\ outcome' = IF Pending = {} THEN "rows"
                  ELSE IF failed /\ Pending = Symbols THEN "all_sources_failed" ELSE "incomplete_fallback"
    /\ UNCHANGED <<conf, source, waiting, pairs, merged, failed, returned, severed>>

(***************************************************************************)
(* A strategy: its check of the mappings and its lookups by address ...    *)
(***************************************************************************)
Ask(kind, lookups) ==
    /\ phase = "next" /\ source \in Sources /\ Pending # {}
    /\ conf.order[source] = kind
    /\ IF RequiredMapped
       THEN /\ phase' = "addresses" /\ waiting' = lookups
            /\ UNCHANGED <<conf, source, pairs, merged, failed, outcome, returned, severed>>
       ELSE SourceFails

Chunks ==
    LET order == SelectSeq(AddressOrder, LAMBDA s : s \in conf.mapped)
    IN  {{order[i] : i \in {j \in DOMAIN order : (j - 1) \div ChunkSize = k}} : k \in {(j - 1) \div ChunkSize : j \in DOMAIN order}}

AskDexScreener == Ask("dexscreener", Chunks)
AskGeckoTerminal == Ask("geckoterminal", {{s} : s \in conf.mapped})
AskBirdeye == Ask("birdeye", {{s} : s \in conf.mapped})

\* One lookup ends: it raises, and finds nothing; it is cancelled; it answers.
Lookup(kind, where, lookup, found) ==
    /\ phase = where /\ conf.order[source] = kind /\ lookup \in waiting
    /\ waiting' = waiting \ {lookup}
    /\ UNCHANGED <<conf, source, phase, merged, failed, outcome, returned>>
    /\ \/ UNCHANGED <<pairs, severed>>
       \/ /\ severed' = severed \cup {source}
          /\ pairs' = [s \in Known |-> IF s \in lookup THEN Severed ELSE pairs[s]]
       \/ /\ \E answer \in [lookup -> Payloads] :
                pairs' = [s \in Known |-> IF s \in lookup THEN found[answer[s]] ELSE pairs[s]]
          /\ UNCHANGED severed

DexChunk(lookup) == Lookup("dexscreener", "addresses", lookup, [pools \in Payloads |-> DexByAddress(pools)])
GeckoPools(lookup) == Lookup("geckoterminal", "addresses", lookup, [pools \in Payloads |-> GeckoByAddress(pools)])
BirdeyeMarket(lookup) == Lookup("birdeye", "addresses", lookup, [pools \in Payloads |-> BirdeyeByAddress(pools)])

(***************************************************************************)
(* ... the searches for the symbols that are neither found nor required;   *)
(* a cancelled lookup by address is unpacked like an answer (TypeError) ...*)
(***************************************************************************)
Found == {s \in Known : pairs[s] # NoPair}

AddressesIn ==
    /\ phase = "addresses" /\ waiting = {}
    /\ IF \E s \in Known : pairs[s] = Severed THEN Raises
       ELSE IF ~ RequiredSymbols \subseteq Found THEN SourceFails
       ELSE /\ phase' = "searches"
            /\ waiting' = {{s} : s \in Symbols \ (Found \cup RequiredSymbols)}
            /\ UNCHANGED <<conf, source, pairs, merged, failed, outcome, returned, severed>>

SearchDexScreener(lookup) == Lookup("dexscreener", "searches", lookup, [pools \in Payloads |-> DexByName(pools)])
SearchGeckoTerminal(lookup) == Lookup("geckoterminal", "searches", lookup, [pools \in Payloads |-> GeckoByName(pools)])
SearchBirdeye(lookup) == Lookup("birdeye", "searches", lookup, [pools \in Payloads |-> BirdeyeByName(pools)])

(***************************************************************************)
(* ... and its checks.  Coverage counts everything in pairs_by_symbol; a   *)
(* cancelled search stands there in the place of a pair until its quality  *)
(* is asked for (AttributeError).                                          *)
(***************************************************************************)
Covered == Cardinality(Found) * 100 >= MinSuccessRatio * Cardinality(Symbols)

Rows == {s \in Symbols : pairs[s].fine}

RequiredInRows == RequiredSymbols \subseteq Rows

\* Broken variant: a later source overwrites the rows of an earlier one.
MergedOverwriting ==
    [s \in Symbols |-> IF s \in Rows
                       THEN [source |-> source, via |-> pairs[s].via, base |-> pairs[s].base]
                       ELSE merged[s]]

Merged ==
    [s \in Symbols |-> IF merged[s] = NoRow /\ s \in Rows
                       THEN [source |-> source, via |-> pairs[s].via, base |-> pairs[s].base]
                       ELSE merged[s]]

Conclude ==
    /\ phase = "searches" /\ waiting = {}
    /\ IF ~ Covered THEN SourceFails
       ELSE IF \E s \in Symbols : pairs[s] = Severed THEN Raises
       ELSE IF ~ RequiredInRows \/ Rows = {} THEN SourceFails
       ELSE /\ merged' = Merged
            /\ returned' = [returned EXCEPT ![source] = Rows]
            /\ source' = source + 1 /\ phase' = "next"
            /\ pairs' = [s \in Known |-> NoPair]
            /\ UNCHANGED <<conf, waiting, failed, outcome, severed>>

MarketNext ==
    \/ AskDexScreener \/ AskGeckoTerminal \/ AskBirdeye
    \/ AddressesIn \/ Conclude \/ Finish
    \/ \E lookup \in waiting :
          \/ DexChunk(lookup) \/ GeckoPools(lookup) \/ BirdeyeMarket(lookup)
          \/ SearchDexScreener(lookup) \/ SearchGeckoTerminal(lookup) \/ SearchBirdeye(lookup)

MarketSpec == MarketInit /\ [][MarketNext]_marketVars

-----------------------------------------------------------------------------
(***************************************************************************)
(* A required symbol's row comes from a lookup of its address, whatever    *)
(* sources failed before, and is about the token at that address (but for  *)
(* GeckoTerminal, which is asked for the pools of a token on either side). *)
(***************************************************************************)
RequiredFromAddress ==
    outcome = "rows" =>
        \A s \in RequiredSymbols :
           /\ merged[s].via = "address"
           /\ conf.order[merged[s].source] # "geckoterminal" => merged[s].base = "own"

(***************************************************************************)
(* No failure of a provider, of a lookup or of a check leaves the chain as *)
(* anything but an IngestionFetchError, and so keeps the next source from  *)
(* being asked; only a cancelled lookup does.                              *)
(***************************************************************************)
OnlyCancellationEscapes == outcome = "raised" => source \in severed

(***************************************************************************)
(* A fetch returns every symbol, each from the first source that returned  *)
(* it, and gives up only after the last source.                            *)
(***************************************************************************)
SymbolsFromFirstSource ==
    /\ outcome = "rows" =>
          \A s \in Symbols :
             /\ merged[s].source \in Sources /\ s \in returned[merged[s].source]
             /\ \A i \in Sources : s \in returned[i] => merged[s].source <= i
    /\ outcome \in {"all_sources_failed", "incomplete_fallback"} => source \notin Sources
=============================================================================
