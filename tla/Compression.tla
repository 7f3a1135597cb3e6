---------------------------- MODULE Compression ----------------------------
(***************************************************************************)
(* The gateway's prompt compression (compression.py,                       *)
(* compression_cache.py): request threads that share one cache and one     *)
(* adaptive ratio, and strategies that rewrite a conversation.             *)
(*                                                                         *)
(* A message is [role, text, tool]; a text is a sequence of sentences      *)
(* [id, size, slack, terms]: size in characters, slack the characters that *)
(* collapsing runs of blanks removes, terms its important words.  Ratios   *)
(* are in hundredths, qualities in thousandths.  The Rust extension is     *)
(* absent, as it is unless built.                                          *)
(***************************************************************************)
EXTENDS Integers, Sequences, FiniteSets, SequencesExt, FiniteSetsExt, Picking

CONSTANTS
    Callers,        \* threads of the gateway
    Conversations,  \* what clients send
    Configs,        \* CompressionConfig
    NoTool,         \* no tool_call_id
    Lifetime,       \* cache_ttl_seconds
    MaxCompressions, MaxClock \* bounds on requests and time

Sentences == [id : STRING, size : Nat, slack : Nat, terms : SUBSET STRING]
Messages == [role : STRING, text : Seq(Sentences), tool : STRING \cup {NoTool}]

\* What CompressionConfig.from_env accepts; the ends of the ratio may be the wrong way round.
ASSUME CompressAssumption ==
    /\ Lifetime \in Nat
    /\ \A messages \in Conversations :
         /\ messages \in Seq(Messages)
         /\ \A i \in DOMAIN messages : \A j \in DOMAIN messages[i].text :
              messages[i].text[j].slack <= messages[i].text[j].size
    /\ \A config \in Configs :
         /\ config.strategy \in {"dedup", "prune", "summarize", "auto"}
         /\ config.cacheSize \in Nat \ {0}
         /\ config.minRatio \in Nat /\ config.maxRatio \in Nat

VARIABLES
    compressConfig,
    compressing,    \* what each thread is in the middle of
    compressed,     \* bound: requests taken up
    cacheClock,
    cache, accessOrder, \* CompressionCache._cache (messages -> [at, result]), _access_order
    ratio, qualities,   \* AdaptiveRatio._current_ratio, _quality_history
    returned        \* ghost: the latest answer to the pipeline, [asked, age, result]

compressVars == <<compressConfig, compressing, compressed, cacheClock, cache, accessOrder, ratio, qualities, returned>>

Quiet == [at |-> "quiet"]

CompressInit ==
    /\ compressConfig \in Configs
    /\ compressing = [c \in Callers |-> Quiet] /\ compressed = 0 /\ cacheClock = 0
    /\ cache = <<>> /\ accessOrder = <<>>
    /\ ratio = (compressConfig.minRatio + compressConfig.maxRatio) \div 2 /\ qualities = <<>>
    /\ returned = Quiet

\* ---------------------------------------------------------------- tokens
SizeOf(text) == SumFunction([j \in DOMAIN text |-> text[j].size])
EstimateTokens(text) == IF SizeOf(text) = 0 THEN 0 ELSE Max({1, SizeOf(text) \div 4})
CountTokens(messages) == SumFunction([i \in DOMAIN messages |-> EstimateTokens(messages[i].text)])
Characters(messages) == SumFunction([i \in DOMAIN messages |-> SizeOf(messages[i].text)])

\* ---------------------------------------------------------------- dedup
Sentence(id, size, terms) == [id |-> id, size |-> size, slack |-> 0, terms |-> terms]
Break == Sentence("break", 2, {})
Joined(a, b) == (IF a # <<>> /\ Last(a) = Break THEN a ELSE Append(a, Break)) \o b
Shrunk(s) == Sentence(s.id, s.size - s.slack, s.terms)
Collapsed(m) == [m EXCEPT !.text = [j \in DOMAIN m.text |-> Shrunk(m.text[j])]]

\* What repeats its predecessor is dropped.
Repeats(messages) ==
    {i \in 2 .. Len(messages) : messages[i].role = messages[i - 1].role /\ messages[i].text = messages[i - 1].text}
Deduplicated(messages) == Picked(messages, DOMAIN messages \ Repeats(messages))
\* Neighbours of one role become one message, without their other fields.
Merge(done, m) ==
    IF done # <<>> /\ Last(done).role = m.role
    THEN [done EXCEPT ![Len(done)] = [role |-> m.role, text |-> Joined(@.text, m.text), tool |-> NoTool]]
    ELSE Append(done, m)
Merged(messages) ==
    LET done[i \in 0 .. Len(messages)] == IF i = 0 THEN <<>> ELSE Merge(done[i - 1], messages[i])
    IN done[Len(messages)]
CollapsedAll(messages) == [i \in DOMAIN messages |-> Collapsed(messages[i])]
DedupCompress(messages) == CollapsedAll(Merged(Deduplicated(messages)))

\* A message that was merged with no other is collapsed in place: it is the
\* caller's own dictionary.
Alone(messages, i) ==
    /\ i = 1 \/ messages[i - 1].role # messages[i].role
    /\ \A j \in DOMAIN messages :
           (j > i /\ \A k \in i .. j : messages[k].role = messages[i].role) => messages[j].text = messages[i].text
LeftBehind(messages, strategy) ==
    IF strategy \notin {"dedup", "auto"} THEN messages
    ELSE [i \in DOMAIN messages |-> IF Alone(messages, i) THEN Collapsed(messages[i]) ELSE messages[i]]

\* ---------------------------------------------------------------- prune
\* The whole sentences within the first (last) n characters.
Opening(text, k) == SubSeq(text, 1, k)
Closing(text, k) == SubSeq(text, Len(text) - k + 1, Len(text))
Leading(text, n) == Opening(text, Max({k \in 0 .. Len(text) : SizeOf(Opening(text, k)) <= n}))
Trailing(text, n) == Closing(text, Max({k \in 0 .. Len(text) : SizeOf(Closing(text, k)) <= n}))
Rest(size, kept) == Sentence("cut", size - SizeOf(kept), {})

Ends(text) == Leading(text, 800) \o <<Rest(1627, Leading(text, 800) \o Trailing(text, 800))>> \o Trailing(text, 800)
LastOfRole(messages, role) == Max({0} \cup {i \in DOMAIN messages : messages[i].role = role})

\* Messages without content are dropped, and what is long is cut.
Lasting(messages) ==
    {i \in DOMAIN messages : SizeOf(messages[i].text) # 0
        \/ i \in {LastOfRole(messages, "system"), LastOfRole(messages, "user")}}
Pruned(messages, i) ==
    LET m == messages[i] IN
    CASE m.role = "system" /\ i # LastOfRole(messages, "system") /\ SizeOf(m.text) > 500 ->
             [m EXCEPT !.text = Append(Leading(@, 500), Rest(503, Leading(@, 500)))]
      [] m.role = "user" /\ SizeOf(m.text) > 2000 -> [m EXCEPT !.text = Ends(@)]
      [] OTHER -> m
ToolsOnce(messages) ==
    LET SameTool(i, j) == messages[i].role = "tool" /\ messages[j].role = "tool" /\ messages[i].tool = messages[j].tool
    IN Picked(messages, {i \in DOMAIN messages : messages[i].tool # NoTool => \A j \in 1 .. i - 1 : ~SameTool(i, j)})
PruneCompress(messages) ==
    LET kept == ToolsOnce(Picked([i \in DOMAIN messages |-> Pruned(messages, i)], Lasting(messages))) IN
    IF kept = <<>> THEN messages ELSE kept

AutoCompress(messages) ==
    LET deduped == DedupCompress(messages)  pruned == PruneCompress(deduped) IN
    IF CountTokens(pruned) < CountTokens(deduped) THEN pruned ELSE deduped

\* ---------------------------------------------------------------- summarize
\* The first two sentences of each message, unless short; what is said again
\* in much the same words is left out.
Line(m, s) ==
    IF m.role = "user" THEN [s EXCEPT !.size = @ + 14, !.slack = 0, !.terms = @ \cup {"user", "asked"}]
    ELSE [s EXCEPT !.size = @ + 18, !.slack = 0, !.terms = @ \cup {"assistant", "said"}]
Salient(m) ==
    LET sentences == SelectSeq(m.text, LAMBDA s : s # Break)
        top == SubSeq(sentences, 1, Min({2, Len(sentences)}))
        long == SelectSeq(top, LAMBDA s : s.size - s.slack > 15)
    IN [i \in DOMAIN long |-> Line(m, long[i])]
Similar(s, t) == 10 * Cardinality(s.terms \cap t.terms) > 7 * Cardinality(s.terms \cup t.terms)
ExtractiveSummarize(messages) ==
    LET lines == FlattenSeq([i \in DOMAIN messages |-> Salient(messages[i])])
        unique == FoldLeft(LAMBDA u, s : IF \E i \in DOMAIN u : Similar(s, u[i]) THEN u ELSE Append(u, s), <<>>, lines)
    IN IF lines = <<>> THEN <<Sentence("nothing", 37, {"substantial", "content", "summarize"})>>
       ELSE IF Len(unique) > 15 THEN Append(SubSeq(unique, 1, 15), Sentence("more", 36, {"additional", "history", "summarized"}))
       ELSE unique

SummarizeCompress(messages, target) ==
    LET n == Len(messages)
        keep == Max({2, Min({Max({1, (n * (100 - target)) \div 100}), n - 2})})
        summary == [role |-> "system", tool |-> NoTool,
                    text |-> <<Sentence("summary", 23, {"conversation", "summary"})>> \o ExtractiveSummarize(SubSeq(messages, 1, n - keep))]
        shorter == <<summary>> \o SubSeq(messages, n - keep + 1, n)
    IN IF keep >= n \/ CountTokens(shorter) >= CountTokens(messages) THEN messages ELSE shorter

\* ---------------------------------------------------------------- choice and quality
SelectStrategy(messages) ==
    LET sizes == {SizeOf(messages[i].text) : i \in DOMAIN messages} IN
    CASE compressConfig.strategy # "auto" -> compressConfig.strategy
      [] 100 * Cardinality(Repeats(messages)) > 15 * Len(messages) -> "dedup"
      [] Max(sizes) > 3000 \/ Characters(messages) > 1000 * Len(messages) -> "prune"
      [] Len(messages) > compressConfig.maxMessages -> "summarize"
      [] OTHER -> "auto"
Compress(messages, strategy, target) ==
    CASE strategy = "dedup" -> DedupCompress(messages)
      [] strategy = "prune" -> PruneCompress(messages)
      [] strategy = "summarize" -> SummarizeCompress(messages, target)
      [] strategy = "auto" -> AutoCompress(messages)

Terms(messages) == UNION UNION {{messages[i].text[j].terms : j \in DOMAIN messages[i].text} : i \in DOMAIN messages}
TermsIn(text) == SumFunction([j \in DOMAIN text |-> Cardinality(text[j].terms)])
TermCount(messages) == SumFunction([i \in DOMAIN messages |-> TermsIn(messages[i].text)])
Reduction(before, after) == IF before = 0 THEN 0 ELSE Max({0, 1000 - (1000 * after) \div before})
AssessQuality(before, after) ==
    LET old == Terms(before)  new == Terms(after)
        shorter == Reduction(Characters(before), Characters(after))
        removed == (Reduction(TermCount(before), TermCount(after)) + shorter) \div 2
    IN CASE old \cup new = {} -> 1000
         [] old = {} -> IF shorter > 0 THEN 800 ELSE 700
         [] OTHER -> (500 * Cardinality(old \cap new)) \div Cardinality(old \cup new)
                     + (300 * Cardinality(old \cap new)) \div Cardinality(old)
                     + (IF removed > 100 THEN removed \div 5 ELSE 100)

\* ---------------------------------------------------------------- adaptive ratio
Average(s) == SumFunction(s) \div Len(s)
GetRatio ==
    CASE Len(qualities) < 3 -> ratio
      [] Average(qualities) > 850 -> Max({compressConfig.minRatio, ratio - 5})
      [] Average(qualities) < 600 -> Min({compressConfig.maxRatio, ratio + 5})
      [] OTHER -> ratio
Update(result) ==
    IF result.skipped THEN qualities
    ELSE LET longer == Append(qualities, result.quality) IN IF Len(longer) > 10 THEN Tail(longer) ELSE longer

\* ---------------------------------------------------------------- cache
\* Mutant of CacheKey: the key is made of the latest message alone.
CacheKeyLast(messages) == <<Last(messages)>>
CacheKey(messages) == messages
Expired(key) == cacheClock - cache[key].at >= Lifetime
Without(order, key) == Picked(order, {i \in DOMAIN order : order[i] # key})

Cached(key, result) ==
    LET full == key \notin DOMAIN cache /\ Cardinality(DOMAIN cache) >= compressConfig.cacheSize
        kept == IF full THEN DOMAIN cache \ {Head(accessOrder)} ELSE DOMAIN cache
    IN /\ cache' = [k \in kept \cup {key} |-> IF k = key THEN [at |-> cacheClock, result |-> result] ELSE cache[k]]
       /\ accessOrder' = Append(Without(IF full THEN Tail(accessOrder) ELSE accessOrder, key), key)

-----------------------------------------------------------------------------
Untouched(messages, q) == [source |-> messages, sent |-> messages, strategy |-> compressConfig.strategy,
    before |-> CountTokens(messages), after |-> CountTokens(messages), saved |-> 0, skipped |-> TRUE, quality |-> q]
Return(messages, age, result) == returned' = [asked |-> messages, age |-> age, result |-> result]

\* compress_messages up to the cache: short conversations pass, a fresh entry
\* answers and becomes the most recently used, an expired one is dropped.
LookUp(c) ==
    \E messages \in Conversations :
        LET key == CacheKey(messages)
            next == [at |-> "compress", messages |-> messages, strategy |-> SelectStrategy(messages)]
        IN
        /\ compressing[c] = Quiet /\ compressed < MaxCompressions
        /\ compressed' = compressed + 1
        /\ \/ /\ ~compressConfig.enabled \/ CountTokens(messages) <= compressConfig.minTokens
              /\ Return(messages, 0, Untouched(messages, AssessQuality(messages, messages)))
              /\ UNCHANGED <<compressing, cache, accessOrder>>
           \/ /\ compressConfig.enabled /\ CountTokens(messages) > compressConfig.minTokens
              /\ key \in DOMAIN cache /\ ~Expired(key)
              /\ accessOrder' = Append(Without(accessOrder, key), key)
              /\ Return(messages, cacheClock - cache[key].at, cache[key].result)
              /\ UNCHANGED <<compressing, cache>>
           \/ /\ compressConfig.enabled /\ CountTokens(messages) > compressConfig.minTokens
              /\ key \in DOMAIN cache => Expired(key)
              /\ cache' = [k \in DOMAIN cache \ {key} |-> cache[k]]
              /\ accessOrder' = Without(accessOrder, key)
              /\ compressing' = [compressing EXCEPT ![c] = next]
              /\ UNCHANGED returned
        /\ UNCHANGED <<compressConfig, cacheClock, ratio, qualities>>

\* The strategy, its quality, and the feedback, without a lock.
Work(c) ==
    LET job == compressing[c]
        adaptive == compressConfig.adaptive /\ compressConfig.strategy = "auto"
        now == LeftBehind(job.messages, job.strategy)
    IN
    /\ job.at = "compress"
    /\ \E target \in {IF adaptive THEN GetRatio ELSE compressConfig.target},
          before \in {CountTokens(job.messages)} :
       \E sent \in {Compress(job.messages, job.strategy, target)} :
       \E q \in {AssessQuality(now, sent)}, after \in {CountTokens(sent)} :
       LET kept == q >= compressConfig.minQuality
           result == [source |-> now, sent |-> IF kept THEN sent ELSE now, strategy |-> job.strategy,
                      before |-> before, after |-> IF kept THEN after ELSE before,
                      saved |-> IF kept THEN Max({0, before - after}) ELSE 0, skipped |-> ~kept, quality |-> q]
       IN /\ ratio' = IF adaptive THEN target ELSE ratio
          /\ qualities' = IF compressConfig.adaptive THEN Update(result) ELSE qualities
          /\ compressing' = [compressing EXCEPT ![c] = [at |-> "store", asked |-> job.messages, messages |-> now, result |-> result]]
    /\ UNCHANGED <<compressConfig, compressed, cacheClock, cache, accessOrder, returned>>

\* The messages are hashed again, as the strategy left them.
Store(c) ==
    LET job == compressing[c] IN
    /\ job.at = "store"
    /\ Cached(CacheKey(job.messages), job.result)
    /\ Return(job.asked, 0, job.result)
    /\ compressing' = [compressing EXCEPT ![c] = Quiet]
    /\ UNCHANGED <<compressConfig, compressed, cacheClock, ratio, qualities>>

CacheTick ==
    /\ cacheClock < MaxClock /\ cacheClock' = cacheClock + 1
    /\ UNCHANGED <<compressConfig, compressing, compressed, cache, accessOrder, ratio, qualities, returned>>

CompressNext == CacheTick \/ \E c \in Callers : LookUp(c) \/ Work(c) \/ Store(c)
CompressSpec == CompressInit /\ [][CompressNext]_compressVars

\* ---------------------------------------------------------------- properties
\* Whatever threads share the cache, the prompt sent for a request was made of
\* that request's own messages, up to blanks, and is not older than the cache
\* allows (compress_messages, CompressionCache.get).
OwnConversation ==
    returned # Quiet =>
        /\ CollapsedAll(returned.asked) = CollapsedAll(returned.result.source)
        /\ returned.age > 0 => returned.age < Lifetime

IdsAt(messages, i) == {messages[i].text[j].id : j \in DOMAIN messages[i].text}
Ids(messages, role) == UNION {IdsAt(messages, i) : i \in {i \in DOMAIN messages : messages[i].role = role}}
InstructionsIn(asked, sent) ==
    LET sys == LastOfRole(asked, "system")  usr == LastOfRole(asked, "user")
    IN /\ sys # 0 => IdsAt(asked, sys) \subseteq Ids(sent, "system")
       /\ usr # 0 /\ SizeOf(asked[usr].text) <= 800 => IdsAt(asked, usr) \subseteq Ids(sent, "user")
\* Unless the history is summarized, the last system prompt and a last question
\* of at most 800 characters are sent whole, even merged into a longer message
\* that is then cut in the middle (prune_compress keeps both ends).
InstructionsKept ==
    returned # Quiet /\ returned.result.strategy # "summarize" => InstructionsIn(returned.asked, returned.result.sent)

\* The cache forgets the least recently used entry and never outgrows its
\* limit; the adaptive ratio stays between its ends, whichever is the greater
\* (from_env does not compare them).
CacheOrdered ==
    /\ ToSet(accessOrder) = DOMAIN cache /\ Len(accessOrder) = Cardinality(DOMAIN cache)
    /\ Len(accessOrder) <= compressConfig.cacheSize
    /\ ratio \in compressConfig.minRatio .. compressConfig.maxRatio
          \/ ratio \in compressConfig.maxRatio .. compressConfig.minRatio

\* The three together: what is sent is the request's own conversation with its
\* instructions and its question, out of a cache in order.
CompressionSound == OwnConversation /\ InstructionsKept /\ CacheOrdered
=============================================================================
