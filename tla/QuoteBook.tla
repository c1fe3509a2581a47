----------------------------- MODULE QuoteBook -----------------------------
(***************************************************************************)
(* Core's hot quote book (spx-core, quote_book.rs): per provider the last  *)
(* accepted batch, and the identities of recent batches.                   *)
(*                                                                         *)
(* A batch is the ingress frame that carries it: `stamp' stands for its    *)
(* payload hash, `content' for its quotes and provider state.  The bridge  *)
(* is the only producer and always sends replace_provider_snapshot.        *)
(*                                                                         *)
(* Time is abstracted: `aged' is the set of remembered identities that are *)
(* older than the retention when the operation runs, or that the entry     *)
(* limits evict.  Quotes of the last batch that age out of the book are    *)
(* not distinguished from those that stay.                                 *)
(***************************************************************************)
EXTENDS Integers

Provider == {"schwab", "ibkr"}

\* ProviderStateV1::is_live; the other contents carry no quotes.
Live(content) == content \notin {"unavailable", "degraded"}

BatchId(f) == <<f.provider, f.gen, f.seq, f.fingerprint>>

EmptyBook(nothing) ==
    [cursor |-> [p \in Provider |-> nothing], seen |-> {}]

Older(f, g) == f.gen < g.gen \/ (f.gen = g.gen /\ f.seq < g.seq)

\* What QuoteBook::apply answers.
Disposition(book, aged, f, nothing) ==
    LET c == book.cursor[f.provider]
        known == {g \in book.seen \ aged : BatchId(g) = BatchId(f)}
    IN  IF known # {} THEN IF f \in known THEN "duplicate" ELSE "collision"
        ELSE IF c = nothing THEN "applied"
        ELSE IF Older(f, c) THEN "stale"
        ELSE IF Older(c, f) THEN "applied"
        ELSE IF f = c THEN "duplicate" ELSE "collision"

\* An accepted batch replaces its provider's and prunes the old identities.
Applied(book, aged, f) ==
    [cursor |-> [book.cursor EXCEPT ![f.provider] = f],
     seen   |-> (book.seen \ aged) \union {f}]

\* Whether a decision may use quotes of this provider.
ShownLive(book, p, nothing) == book.cursor[p] # nothing /\ Live(book.cursor[p].content)
=============================================================================
