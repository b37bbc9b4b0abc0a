----------------------------- MODULE SearchIndex -----------------------------
(***************************************************************************)
(* The two inverted indexes of Viking: SearchIndex (viking/search.go) and  *)
(* BM25Index (viking/bm25.go), which index the same documents here.  Each  *)
(* is in memory behind a mutex, is written to a file by Persist and read   *)
(* by Load when the process starts.                                        *)
(***************************************************************************)
EXTENDS Segmenter, FiniteSets

CONSTANTS
  DocIds, Texts, Queries,
  Long,                       \* texts whose line is as long as Load can read, or longer
  SearchLimit,                \* how many ids BM25Index returns
  None,
  MaxIndexed, MaxSaves

Tokens == UNION {{Segment(t)[i] : i \in DOMAIN Segment(t)} : t \in Texts \cup Queries}
Chars == Han \cup Words
Indexes == {"search", "bm25"}

VARIABLES
  docs, index,                \* of SearchIndex: id: text or None; token to id to count
  docMeta, termDocFreq, docLen, totalDocs, totalLen,   \* of BM25Index
  files,         \* the lines of the files of both: id to text or None
  saving,        \* the lines Persist has copied and not yet renamed, or None
  indexed, saves

vars == <<docs, index, docMeta, termDocFreq, docLen, totalDocs, totalLen,
          files, saving, indexed, saves>>

NoDocs == [d \in DocIds |-> None]
Zero(tokens) == [t \in tokens |-> [d \in DocIds |-> 0]]
Count(s, t) == Cardinality({i \in DOMAIN s : s[i] = t})
Present(ds) == {d \in DocIds : ds[d] # None}

(* The counts of one more document: each of its tokens is counted. *)
CountTokens(ix, d, tokens) == [t \in DOMAIN ix |-> [ix[t] EXCEPT ![d] = @ + Count(tokens, t)]]

(* Variant: the entries of the document's old text stay. *)
ForgetNothing(ix, d, tokens) == ix

(* The entries of the document under the tokens of its old text. *)
Forget(ix, d, tokens) ==
  [t \in DOMAIN ix |-> IF Count(tokens, t) > 0 THEN [ix[t] EXCEPT ![d] = 0] ELSE ix[t]]

Init ==
  /\ docs = NoDocs /\ docMeta = NoDocs
  /\ index = Zero(Chars) /\ termDocFreq = Zero(Tokens)
  /\ docLen = NoDocs /\ totalDocs = 0 /\ totalLen = 0
  /\ files = [x \in Indexes |-> NoDocs]
  /\ saving = [x \in Indexes |-> None]
  /\ indexed = 0 /\ saves = 0

(* recomputeAvgLen: the average is totalLen / totalDocs. *)
RecomputeAvgLen(lens) ==
  /\ totalDocs' = Cardinality(Present(lens))
  /\ LET sum[S \in SUBSET DocIds] ==
           IF S = {} THEN 0
           ELSE LET d == CHOOSE x \in S : TRUE IN lens[d] + sum[S \ {d}]
     IN  totalLen' = sum[Present(lens)]

IndexDoc(d, text) ==
  /\ indexed < MaxIndexed
  /\ indexed' = indexed + 1
  /\ docs' = [docs EXCEPT ![d] = text] /\ docMeta' = [docMeta EXCEPT ![d] = text]
  /\ index' = CountTokens(IF docs[d] = None THEN index ELSE Forget(index, d, Tokenize(docs[d])),
                          d, Tokenize(text))
  /\ termDocFreq' = CountTokens(IF docMeta[d] = None THEN termDocFreq
                                ELSE Forget(termDocFreq, d, Segment(docMeta[d])), d, Segment(text))
  /\ docLen' = [docLen EXCEPT ![d] = Len(Segment(text))]
  /\ RecomputeAvgLen(docLen')
  /\ UNCHANGED <<files, saving, saves>>

-----------------------------------------------------------------------------
(* Persist: the lines are copied under the lock, written to .tmp and       *)
(* renamed without it; other calls may come between.                       *)
CopyLines(x) ==
  /\ saving[x] = None /\ saves < MaxSaves
  /\ saves' = saves + 1
  /\ saving' = [saving EXCEPT ![x] = IF x = "search" THEN docs ELSE docMeta]
  /\ UNCHANGED <<docs, index, docMeta, termDocFreq, docLen, totalDocs, totalLen, files, indexed>>

(* Writing or renaming may also fail; the file stays then. *)
RenameLines(x) ==
  /\ saving[x] # None
  /\ files' \in {files, [files EXCEPT ![x] = saving[x]]}
  /\ saving' = [saving EXCEPT ![x] = None]
  /\ UNCHANGED <<docs, index, docMeta, termDocFreq, docLen, totalDocs, totalLen, indexed, saves>>

(* What Load may find in a file: nothing if it cannot be read; and the     *)
(* Scanner stops at a line of 64 KiB, with the lines in the order of a map *)
(* of Go, which is any.                                                    *)
Loads(file) ==
  LET long == {d \in DocIds : file[d] \in Long}
  IN  {[d \in DocIds |-> IF d \in S THEN file[d] ELSE None] :
         S \in IF long = {} THEN {{}, DocIds} ELSE SUBSET (DocIds \ long)}

(* The process stops and starts: Load counts the lines it finds. *)
Restart ==
  /\ docs' \in Loads(files["search"]) /\ docMeta' \in Loads(files["bm25"])
  /\ LET load(tokens, of(_), ds) ==
           [t \in tokens |-> [d \in DocIds |-> IF ds[d] = None THEN 0 ELSE Count(of(ds[d]), t)]]
     IN  index' = load(Chars, Tokenize, docs') /\ termDocFreq' = load(Tokens, Segment, docMeta')
  /\ docLen' = [d \in DocIds |-> IF docMeta'[d] = None THEN None ELSE Len(Segment(docMeta'[d]))]
  /\ RecomputeAvgLen(docLen')
  /\ saving' = [x \in Indexes |-> None]
  /\ UNCHANGED <<files, indexed, saves>>

Next ==
  \/ \E d \in DocIds, t \in Texts : IndexDoc(d, t)
  \/ \E x \in Indexes : CopyLines(x) \/ RenameLines(x)
  \/ Restart

Spec == Init /\ [][Next]_vars

-----------------------------------------------------------------------------
(* Search: the documents with a token of the query.  BM25Index returns the *)
(* first of them by a score, which is positive for each; the order is left *)
(* open.                                                                   *)
SearchDocs(q) == {d \in DocIds : \E i \in DOMAIN Tokenize(q) : index[Tokenize(q)[i]][d] > 0}
Matches(q) == {d \in DocIds : \E i \in DOMAIN Segment(q) : termDocFreq[Segment(q)[i]][d] > 0}
SearchBM25(q) ==
  {R \in SUBSET Matches(q) :
     Cardinality(R) = IF Cardinality(Matches(q)) < SearchLimit THEN Cardinality(Matches(q))
                                                               ELSE SearchLimit}

(* After any indexing again of a document, any save and any restart, each  *)
(* index counts the tokens of the documents it holds, and no others, and   *)
(* knows how many these are and how long each of them is.  What a restart  *)
(* could not load it does not hold, nor does the next save.                *)
IndexMatchesDocs ==
  /\ \A d \in DocIds :
       /\ \A t \in Chars : index[t][d] = IF docs[d] = None THEN 0 ELSE Count(Tokenize(docs[d]), t)
       /\ \A t \in Tokens :
            termDocFreq[t][d] = IF docMeta[d] = None THEN 0 ELSE Count(Segment(docMeta[d]), t)
       /\ docLen[d] = IF docMeta[d] = None THEN None ELSE Len(Segment(docMeta[d]))
  /\ totalDocs = Cardinality(Present(docMeta))

(* Of the documents it holds, SearchIndex, whose tokens are single         *)
(* characters and words, returns all that contain one of the query, and no *)
(* other.  BM25Index returns no more than the limit, only documents with a *)
(* character or the stem of a word of the query, and, when no more of      *)
(* these than the limit are there, each document whose text is the query;  *)
(* it may miss one where the dictionary cuts the query and the document at *)
(* different places.                                                       *)
SearchFindsContained ==
  \A q \in Queries :
    LET same(a, b) == a = b
        sameStem(a, b) == a = b \/ (a \in Words /\ b \in Words /\ Stem[a] = Stem[b])
        sharing(ds, eq(_, _)) ==
          {d \in Present(ds) : \E i \in DOMAIN Tokenize(q), j \in DOMAIN Tokenize(ds[d]) :
                                 eq(Tokenize(q)[i], Tokenize(ds[d])[j])}
        alike == sharing(docMeta, sameStem)
    IN  /\ SearchDocs(q) = sharing(docs, same)
        /\ \A R \in SearchBM25(q) :
             /\ R \subseteq alike /\ Cardinality(R) <= SearchLimit
             /\ Cardinality(alike) <= SearchLimit /\ Segment(q) # <<>> =>
                  {d \in Present(docMeta) : docMeta[d] = q} \subseteq R
=============================================================================
