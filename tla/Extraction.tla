----------------------------- MODULE Extraction -----------------------------
(***************************************************************************)
(* What FileScopeMCP reads out of one TypeScript file: the export snapshot *)
(* that change detection compares, and the symbols, edges and call sites   *)
(* of the index (change-detector/ast-parser.ts, extractTsJsFileParse of    *)
(* language-config.ts).                                                    *)
(*                                                                         *)
(* A file is a sequence of top-level statements; its line i holds the i-th *)
(* statement.  A statement is one of the records below.  The text of a     *)
(* declaration is abstracted to head, its first line up to the brace, and  *)
(* rest, all that is declared elsewhere: further lines of parameters, the  *)
(* members of an interface, a class or an enum.                            *)
(***************************************************************************)
EXTENDS Naturals, Sequences, FiniteSets, SequencesExt

CONSTANTS
    Here,        \* the file's own path
    ResolvesTo,  \* what a specifier resolves to: a path of the project, or Package (a path
                 \* outside makes the extraction of the file fail and is left out)
    Package,     \* a package, or a specifier that resolves to nothing
    Barrels      \* index files

(* [stmt |-> "import", from |-> specifier, names |-> set of [name, as]];   *)
(*     a require() or import() anywhere is one without names               *)
(* [stmt |-> "reexport", from |-> specifier]                               *)
(* [stmt |-> "clause", names |-> set of names]      export { a, b }        *)
(* [stmt |-> "value", head |-> text]                export default <expr>  *)
(* [stmt |-> "decl", decl |-> keyword, exported |-> "no", "named" or       *)
(*     "default", split |-> whether the declaration begins on a line after *)
(*     the one with `export', head, rest |-> texts,                        *)
(*     binds |-> sequence of [name, value, calls]]: one for each variable  *)
(*     declared, with the kind of its value and the names it calls         *)
IsSequence(s) == s \in Seq(ToSet(s))
IsImport(s) == s.stmt = "import"
IsDecl(s) == s.stmt = "decl"
HasBody(s) == s.decl \in {"function", "class"}

-----------------------------------------------------------------------------
(* extractSnapshot *)

\* nodeTypeToKind
ExportKind(s) ==
    IF s.exported = "default" THEN "default"
    ELSE IF s.decl \in {"const", "let", "var"} THEN "variable" ELSE s.decl

\* extractSignature
Signature(s) == s.head

\* processExportStatement: neither a clause nor a re-export has a declaration
\* or a value.
ExportsOf(s) ==
    IF IsDecl(s) /\ s.exported # "no"
      THEN [i \in DOMAIN s.binds |->
              [name |-> s.binds[i].name, kind |-> ExportKind(s), signature |-> Signature(s)]]
      ELSE IF s.stmt = "value"
             THEN <<[name |-> "default", kind |-> "default", signature |-> s.head]>>
             ELSE << >>

\* Each specifier once, in the order of first occurrence.
SpecifiersOf(text) ==
    LET from == SelectSeq(text, LAMBDA s : s.stmt \in {"import", "reexport"}) IN
    FoldLeft(LAMBDA seen, s : IF s.from \in ToSet(seen) THEN seen ELSE Append(seen, s.from),
             << >>, from)

Snapshot(text) ==
    [exports |-> FlattenSeq([i \in DOMAIN text |-> ExportsOf(text[i])]),
     imports |-> SpecifiersOf(text)]

-----------------------------------------------------------------------------
(* extractRicherEdges: symbols *)

\* extractBareTopLevelSymbol: of the variables only const makes symbols.
SymbolKindOf(s, b) ==
    IF s.decl # "const" THEN s.decl ELSE IF b.value = "arrow" THEN "function" ELSE "const"

\* extractExportedSymbol: an exported symbol begins where the statement does.
SymbolLine(text, i) == <<i, 0>>

Symbols(text) ==
    UNION {{[name |-> b.name, kind |-> SymbolKindOf(text[i], b), line |-> SymbolLine(text, i),
             isExport |-> text[i].exported # "no"] : b \in ToSet(text[i].binds)} :
           i \in {j \in DOMAIN text : IsDecl(text[j]) /\ text[j].decl \notin {"let", "var"}}}

-----------------------------------------------------------------------------
(* extractRicherEdges: call sites *)

\* Where the declaration itself begins.
DeclLine(text, i) == <<i, IF text[i].split THEN 1 ELSE 0>>

\* The frames under which the calls of a declaration are found: a function or
\* a class is pushed for its export statement and again for itself; of const
\* and let the first variable that holds a function stands for all.
Frames(text, i) ==
    LET s == text[i]
        holder == SelectInSeq(s.binds, LAMBDA b : b.value \in {"arrow", "function"}) IN
    IF HasBody(s)
      THEN (IF s.exported # "no" THEN <<[name |-> s.binds[1].name, line |-> <<i, 0>>]>> ELSE << >>)
             \o <<[name |-> s.binds[1].name, line |-> DeclLine(text, i)]>>
      ELSE IF s.decl \in {"const", "let"} /\ holder # 0
             THEN <<[name |-> s.binds[holder].name, line |-> DeclLine(text, i)]>>
             ELSE << >>

\* The innermost frame is the caller; a call outside of any frame is dropped.
Candidates(text) ==
    UNION {{[caller |-> Last(Frames(text, i)), callee |-> n] :
              n \in UNION {b.calls : b \in ToSet(text[i].binds)}} :
           i \in {j \in DOMAIN text : IsDecl(text[j]) /\ Frames(text, j) # << >>}}

-----------------------------------------------------------------------------
(* extractTsJsFileParse: edges and calls, with the symbol rows of the index *)

Edges(text) ==
    {e \in {[target |-> ResolvesTo[s.from],
             type |-> IF IsImport(s) THEN "imports" ELSE "re_exports"] :
              s \in {t \in ToSet(text) : t.stmt \in {"import", "reexport"}}} :
       e.target # Package}

LocalNames(text) == {s.name : s \in Symbols(text)}

\* importedSymbolIndex: the file that a name is imported from, by its original
\* name, if that file has such a symbol and no other does.
Imported(text, rows) ==
    LET from(n) == {ResolvesTo[s.from] : s \in {t \in ToSet(text) :
                       IsImport(t) /\ \E m \in t.names : m.name = n}}
                     \ (Barrels \cup {Package})
        holding(n) == {p \in from(n) : <<p, n>> \in rows} IN
    [n \in {m \in {r[2] : r \in rows} : Cardinality(holding(m)) = 1} |->
        CHOOSE p \in holding(n) : TRUE]

\* Mutant: the index of imports is asked first.
ResolvedAbroad(text, rows, n) ==
    IF n \in DOMAIN Imported(text, rows) THEN Imported(text, rows)[n]
    ELSE IF n \in LocalNames(text) THEN Here ELSE Package

\* A symbol of this file comes first, then an import; Package is a dropped call.
Resolved(text, rows, n) ==
    IF n \in LocalNames(text) THEN Here
    ELSE IF n \in DOMAIN Imported(text, rows) THEN Imported(text, rows)[n] ELSE Package

CallEdges(text, rows) ==
    {[caller |-> c.caller, path |-> Resolved(text, rows, c.callee), callee |-> c.callee] :
       c \in {d \in Candidates(text) : Resolved(text, rows, d.callee) # Package}}

-----------------------------------------------------------------------------
(* References: what the language says of the same text *)

Declares(text, n) ==
    \E s \in ToSet(text) : IsDecl(s) /\ n \in {b.name : b \in ToSet(s.binds)}

\* Where a name used in the file comes from, if the file binds it: its own
\* declarations first; an imported name is bound under the name after `as'.
BoundTo(text, n) ==
    IF Declares(text, n) THEN {Here}
    ELSE {ResolvesTo[s.from] : s \in {t \in ToSet(text) :
            IsImport(t) /\ \E m \in t.names : m.as = n}}

\* The language does not let a file bind a name by imports from two files, or by
\* an import and a declaration.
BindsOnce(text) ==
    \A s, u \in {t \in ToSet(text) : IsImport(t)} : \A m \in s.names :
        /\ ~Declares(text, m.as)
        /\ (\E o \in u.names : o.as = m.as) => ResolvesTo[s.from] = ResolvesTo[u.from]

\* No import renames another name to n, nor n itself unless the file has its own.
PlainName(text, n) ==
    \A s \in {t \in ToSet(text) : IsImport(t)} : \A m \in s.names :
        /\ m.as = n => m.name = n
        /\ m.name = n => m.as = n \/ n \in LocalNames(text)
=============================================================================
