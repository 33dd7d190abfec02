----------------------------- MODULE MCKeyspace -----------------------------
(* Two keys, a second database to move to, and elements that are a number, *)
(* a short string and one too long for the compact encodings.              *)
EXTENDS Keyspace, TLC

KeyNames == {"k1", "k2"}
Databases == {0, 1}

One == <<49>>
A == <<97>>
Long == <<120, 120, 120>>

K == <<0, "k1">>
L == <<0, "k2">>

Elements == {One, A, Long}
All == [min |-> <<>>, max |-> <<>>, minex |-> FALSE, maxex |-> FALSE]
Scores(lo, hi, ex) == [min |-> lo, max |-> hi, minex |-> ex, maxex |-> FALSE]
By == [kind |-> "key", of |-> (One :> K) @@ (A :> L), f |-> <<>>]

StringCommands ==
    {[op |-> "set", k |-> k, v |-> v, nx |-> nx, xx |-> FALSE, px |-> None] :
        k \in {K, L}, v \in {One, A}, nx \in BOOLEAN}
    \cup {[op |-> "setex", k |-> K, v |-> A, nx |-> FALSE, xx |-> FALSE, px |-> 1]}
    \cup {[op |-> "getset", k |-> K, v |-> One],
          [op |-> "setrange", k |-> K, n |-> 1, v |-> A],
          [op |-> "setrange", k |-> K, n |-> 1, v |-> <<>>],
          [op |-> "append", k |-> K, v |-> A],
          [op |-> "mset", ks |-> <<K, L>>, vs |-> <<A, One>>, nx |-> TRUE],
          [op |-> "incrby", k |-> K, n |-> 1, decr |-> FALSE],
          [op |-> "incrby", k |-> K, n |-> 1, decr |-> TRUE],
          [op |-> "incrby", k |-> K, n |-> 2, decr |-> TRUE],
          [op |-> "incrbyfloat", k |-> K, n |-> 1],
          [op |-> "setbit", k |-> K, n |-> 7, on |-> 0],
          [op |-> "bitop", bitop |-> "and", dst |-> L, ks |-> <<K, L>>],
          [op |-> "bitfield", k |-> K,
           ops |-> <<[sub |-> "incrby", off |-> 0, bits |-> 2, sign |-> FALSE,
                      n |-> 1, ow |-> "fail"],
                     [sub |-> "get", off |-> 4, bits |-> 4, sign |-> TRUE,
                      n |-> 0, ow |-> "wrap"]>>]}

ListCommands ==
    {[op |-> "push", k |-> K, vs |-> vs, where |-> w] :
        vs \in {<<One>>, <<A, One>>}, w \in {"head", "tail"}}
    \cup {[op |-> "push", k |-> L, vs |-> <<A>>, where |-> "tail"],
          [op |-> "pushx", k |-> K, v |-> A, ref |-> <<One>>, where |-> "head"],
          [op |-> "pop", k |-> K, where |-> "head"],
          [op |-> "lset", k |-> K, n |-> -1, v |-> A],
          [op |-> "ltrim", k |-> K, start |-> 1, end |-> -1],
          [op |-> "lrem", k |-> K, v |-> A, n |-> -1],
          [op |-> "rpoplpush", k |-> K, dst |-> L],
          [op |-> "rpoplpush", k |-> K, dst |-> K]}

SetCommands ==
    {[op |-> "sadd", k |-> k, vs |-> <<v>>] : k \in {K, L}, v \in Elements}
    \cup {[op |-> "srem", k |-> K, vs |-> <<v>>] : v \in {One, Long}}
    \cup {[op |-> "smove", k |-> K, dst |-> L, v |-> One]}
    \cup {[op |-> "spop", k |-> K, pick |-> {v}] : v \in Elements}
    \cup {[op |-> "spopcount", k |-> K, n |-> 1, pick |-> {v}] : v \in {One, A}}
    \cup {[op |-> "spopcount", k |-> K, n |-> 2, pick |-> {One, A}],
          [op |-> "sinter", ks |-> <<K, L>>, dst |-> L],
          [op |-> "suniondiff", setop |-> "union", ks |-> <<K, L>>, dst |-> L],
          [op |-> "suniondiff", setop |-> "diff", ks |-> <<K, L>>, dst |-> K]}

HashCommands ==
    {[op |-> "hset", k |-> K, f |-> f, v |-> v] :
        f \in {One, Long}, v \in {A, Long}}
    \cup {[op |-> "hsetnx", k |-> K, f |-> One, v |-> Long],
          [op |-> "hmset", k |-> K, fs |-> <<One, A>>, vs |-> <<A, One>>],
          [op |-> "hdel", k |-> K, fs |-> <<One, A>>]}
    \cup {[op |-> op, k |-> K, f |-> f, n |-> 1] :
            op \in {"hincrby", "hincrbyfloat"}, f \in {One, Long}}

ZsetCommands ==
    {[op |-> "zadd", k |-> K, vs |-> <<v>>, scores |-> <<n>>, nx |-> FALSE,
      xx |-> FALSE, ch |-> FALSE, incr |-> i] :
        v \in Elements, n \in {1}, i \in BOOLEAN}
    \cup {[op |-> "zadd", k |-> L, vs |-> <<One, A>>, scores |-> <<1, Inf>>,
           nx |-> TRUE, xx |-> FALSE, ch |-> TRUE, incr |-> FALSE],
          [op |-> "zrem", k |-> K, vs |-> <<Long>>],
          [op |-> "zremrange", k |-> K, by |-> "rank", start |-> 0, end |-> 0],
          [op |-> "zremrange", k |-> K, by |-> "score",
           range |-> Scores(1, Inf, TRUE)],
          [op |-> "zunioninter", setop |-> "union", ks |-> <<K, L>>, dst |-> L,
           weights |-> <<1, 1>>, aggr |-> "sum"],
          [op |-> "zunioninter", setop |-> "inter", ks |-> <<K, L>>, dst |-> K,
           weights |-> <<1, 0>>, aggr |-> "max"]}

SortOf(k, by, store) ==
    [op |-> "sort", k |-> k, by |-> by, alpha |-> FALSE, desc |-> TRUE,
     offset |-> 0, count |-> -1, get |-> <<>>, store |-> store]

SortCommands ==
    {SortOf(K, by, <<L>>) : by \in {[kind |-> "const"], By}}
    \cup {[SortOf(K, NoPattern, <<L>>) EXCEPT !.alpha = TRUE],
          [SortOf(K, [kind |-> "const"], <<>>) EXCEPT !.get = <<By>>]}

KeyCommands ==
    {[op |-> "del", ks |-> <<K, L>>],
     [op |-> "flushdb", d |-> 0], [op |-> "flushall"],
     [op |-> "rename", k |-> K, dst |-> L, nx |-> FALSE],
     [op |-> "rename", k |-> L, dst |-> K, nx |-> TRUE],
     [op |-> "move", k |-> K, d |-> 1],
     [op |-> "expire", k |-> K, at |-> 1, abs |-> FALSE],
     [op |-> "expire", k |-> L, at |-> 1, abs |-> TRUE],
     [op |-> "persist", k |-> K]}

KeyReads ==
    {[op |-> "type", k |-> K], [op |-> "ttl", k |-> K],
     [op |-> "touch", ks |-> <<K, L>>], [op |-> "keys", d |-> 0],
     [op |-> "exists", ks |-> <<K, K, L>>], [op |-> "dbsize", d |-> 0]}

StringReads ==
    {[op |-> "get", k |-> K], [op |-> "strlen", k |-> K],
     [op |-> "mget", ks |-> <<K, L>>],
     [op |-> "getrange", k |-> K, start |-> -1, end |-> -1],
     [op |-> "getbit", k |-> K, n |-> 9],
     [op |-> "bitcount", k |-> K, start |-> 0, end |-> 0],
     [op |-> "bitpos", k |-> K, on |-> 0, start |-> 0, end |-> -1,
      endgiven |-> FALSE]}

ListReads ==
    {[op |-> "llen", k |-> K], [op |-> "lindex", k |-> K, n |-> -2],
     [op |-> "lrange", k |-> K, start |-> 0, end |-> -1]}

HashReads ==
    {[op |-> "hget", k |-> K, f |-> One], [op |-> "hgetall", k |-> K],
     [op |-> "hmget", k |-> K, fs |-> <<One, Long>>],
     [op |-> "hstrlen", k |-> K, f |-> Long],
     [op |-> "hexists", k |-> K, f |-> A], [op |-> "hlen", k |-> K]}

SetReads ==
    {[op |-> "scard", k |-> K],
     [op |-> "sinter", ks |-> <<K, L>>, dst |-> <<>>],
     [op |-> "srandmember", k |-> K, n |-> 3, pick |-> {}],
     [op |-> "sismember", k |-> K, v |-> One]}

ZsetReads ==
    {[op |-> "zrange", k |-> K, start |-> 0, end |-> -1, rev |-> TRUE],
     [op |-> "zcount", k |-> K, range |-> Scores(1, Inf, TRUE)],
     [op |-> "zrank", k |-> K, v |-> A, rev |-> FALSE],
     [op |-> "zscore", k |-> K, v |-> A], [op |-> "zcard", k |-> K],
     [op |-> "zrangebyscore", k |-> K, range |-> Scores(1, Inf, FALSE),
      rev |-> TRUE, offset |-> 1, count |-> 1],
     [op |-> "zrangebylex", k |-> K, range |-> All, rev |-> FALSE,
      offset |-> 0, count |-> -1],
     [op |-> "zlexcount", k |-> K,
      range |-> [All EXCEPT !.min = <<A>>, !.minex = TRUE]]}

SetL ==
    [op |-> "set", k |-> L, v |-> One, nx |-> FALSE, xx |-> FALSE, px |-> None]

(* One type of value at a time, with a time to live; every workload can    *)
(* also make a key a string, and so of the wrong type.                     *)
Common ==
    {[op |-> "expire", k |-> K, at |-> 1, abs |-> FALSE], SetL}

Workloads ==
    [keys    |-> {[SetL EXCEPT !.k = K], SetL} \cup KeyCommands \cup KeyReads,
     strings |-> Common \cup StringCommands \cup StringReads,
     lists   |-> Common \cup ListCommands \cup ListReads \cup SortCommands,
     sets    |-> Common \cup SetCommands \cup SetReads \cup SortCommands,
     hashes  |-> Common \cup HashCommands \cup HashReads,
     zsets   |-> Common \cup ZsetCommands \cup ZsetReads \cup SortCommands]

============================================================================
