--------------------------- MODULE MCDarAssembly ---------------------------
(***************************************************************************)
(* Three packages a, b, c and the id x of one that nobody holds.  Every    *)
(* reference graph over them is a request, cycles among them: the ids are  *)
(* what the ledger or the caller of DamlPackages::new says they are.       *)
(***************************************************************************)
EXTENDS DarAssembly, TLC

CONSTANTS a, b, c, x

MCPkg == {a, b, c, x}

MCContent(types, others, undecodable, unconvertible) ==
  [p \in MCPkg |->
     [types    |-> IF p = x THEN {} ELSE types[p],
      others   |-> IF p = x THEN {} ELSE others[p],
      decodes  |-> p # undecodable,
      converts |-> p # unconvertible]]

Graphs3 ==
  {(a :> ta) @@ (b :> tb) @@ (c :> tc) :
     ta \in SUBSET {b, c, x}, tb \in SUBSET {a, c}, tc \in SUBSET {a, b, x}}

NoOthers == [p \in {a, b, c} |-> {}]
Contents ==
  {MCContent(g, NoOthers, bad[1], bad[2]) :
     g \in Graphs3, bad \in {<<x, x>>, <<c, x>>, <<x, c>>}}

\* A collection with a package twice is one a caller of `new' can make.
MCRequest ==
  [packages : {<<a, b, c>>, <<c, a>>}, lf : Contents, hint : {None, b}, filter : {TRUE}]
    \union
  [packages : {<< >>, <<a, b, c>>, <<a, b, a>>},
   lf : {MCContent([p \in {a, b, c} |-> {c}], NoOthers, u, x) : u \in {x, b}},
   hint : {None, a, x}, filter : BOOLEAN]

\* Packages whose only use of another one is a value of it, or an interface
\* of it that a template implements.
MCValueRequest ==
  [packages : {<<a, b, c>>},
   lf : {MCContent([NoOthers EXCEPT ![a] = t], [NoOthers EXCEPT ![a] = o], x, x) :
           t \in SUBSET {b, c}, o \in SUBSET {b, c}},
   hint : {None, a}, filter : {TRUE}]

=============================================================================
