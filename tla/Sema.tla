-------------------------------- MODULE Sema --------------------------------
(***************************************************************************)
(* The semantic checker, src/sema.c: sym_check walks every function,       *)
(* binding names to symbols and laying locals out in the stack frame;      *)
(* then type_check walks them again.                                       *)
(*                                                                         *)
(* The recursion of sym_check is an agenda: todo lists what the pending C  *)
(* activations still have to do, first things first.  A step takes the     *)
(* head of the agenda and runs one case of sym_check up to its recursive   *)
(* calls, which it puts in front of the rest.                              *)
(*                                                                         *)
(* A scope's table maps the names it has to symbol ids; enter_scope clones *)
(* the parent's.  The memory make_symtab_entry leaves unset reads as junk, *)
(* one word chosen at the start.  The fields owner and decl of a symbol    *)
(* are history: the function and the declaration it comes from.            *)
(*                                                                         *)
(* Nothing uses the definitions called Faulty...: each is the definition   *)
(* below it with a mistake in it, and with it in place one of the          *)
(* properties has to fail.                                                 *)
(***************************************************************************)
EXTENDS Ast, Integers, SequencesExt

CONSTANTS
    Programs,   \* the programs the parser may deliver
    WordSize,   \* INT_SIZE: what every variable takes, whatever its type
    JunkWords   \* what an unset offset may read as

ASSUME SemaAssumption ==
    /\ \A p \in Programs : ProgramOK(p)
    /\ WordSize \in Nat \ {0}
    /\ JunkWords \subseteq Nat

VARIABLES
    prog,     \* the program
    junk,     \* the unset word
    todo,     \* the agenda of sym_check
    scopes,   \* the chain of symbol tables, the global one first
    syms,     \* every SymTabEntry made so far
    symOf,    \* node -> the symbol it was bound to
    frame,    \* function symbol -> StackFrame.size
    params,   \* function symbol -> the symbols of its parameters
    func,     \* the function being checked
    used,     \* the symbols with is_used
    verdict   \* "symbols", "types", "accepted", "exit1" or "crash"

vars == <<prog, junk, todo, scopes, syms, symOf, frame, params, func, used, verdict>>

Check(n)  == [act |-> "check", node |-> n]
DefineVar(n) == [act |-> "define", node |-> n]
Leave     == [act |-> "leave", node |-> NULL]
Checks(ns) == [i \in 1 .. Len(ns) |-> Check(ns[i])]

Head1 == Head(todo)
Node  == prog.nodes[Head1.node]
At(act) == verdict = "symbols" /\ todo # <<>> /\ Head1.act = act
Checking(ty) == At("check") /\ Node.type = ty

(* The recursive calls of the case, then the rest of the agenda.           *)
Visit(items) == todo' = items \o Tail(todo)

Scope == Last(scopes)
Holders(key) == {i \in DOMAIN scopes : key \in DOMAIN scopes[i]}
InScope(key) == Holders(key) # {}
FaultyLookup(key) == scopes[Min(Holders(key))][key]
Lookup(key)  == scopes[Max(Holders(key))][key]
Bound(table, key, s) == [k \in DOMAIN table \cup {key} |-> IF k = key THEN s ELSE table[k]]
(* The names, one by one, bound to the symbols made after those there are. *)
BoundAll(table, keys) ==
    [k \in DOMAIN table \cup Range(keys) |->
        IF k \in Range(keys) THEN Len(syms) + Max({i \in DOMAIN keys : keys[i] = k})
        ELSE table[k]]
ScopeAdd(key, s)     == scopes' = Append(Front(scopes), Bound(Scope, key, s))
EnterScope           == scopes' = Append(scopes, Scope)

(* The key is a copy str_clone makes of the name, and reads like it: the   *)
(* copy itself is modelled, and shown to stay, with the strings.           *)
NewSym(key, kind, ctype, offset, const, owner, decl) ==
    [key |-> key, kind |-> kind, ctype |-> ctype, offset |-> offset,
     const |-> const, owner |-> owner, decl |-> decl]
FaultyNextSym == Len(syms)
NextSym == Len(syms) + 1

Bind(n, s) == symOf' = Bound(symOf, n, s)

Die(how) ==
    /\ verdict' = how
    /\ UNCHANGED <<prog, junk, todo, scopes, syms, symOf, frame, params, func, used>>

-----------------------------------------------------------------------------
(* The cases of sym_check.                                                 *)

CheckCompStmt ==
    /\ Checking("COMP_STMT")
    /\ EnterScope
    /\ Visit(Checks(Node.stmts) \o <<Leave>>)
    /\ UNCHANGED <<prog, junk, syms, symOf, frame, params, func, used, verdict>>

FaultyLeaveScope ==
    /\ At("leave")
    /\ Visit(<<>>)
    /\ UNCHANGED <<prog, junk, scopes, syms, symOf, frame, params, func, used, verdict>>
LeaveScope ==
    /\ At("leave")
    /\ scopes' = Front(scopes)
    /\ Visit(<<>>)
    /\ UNCHANGED <<prog, junk, syms, symOf, frame, params, func, used, verdict>>

(* The cases that only recurse, in the order in which they do; the body of *)
(* an if is checked before its condition.                                  *)
Parts ==
    CASE Node.type = "IF" -> <<Node.if_body, Node.if_expr>>
                               \o (IF Node.else_body = NULL THEN <<>> ELSE <<Node.else_body>>)
      [] Node.type = "BIN_EXP"    -> <<Node.left, Node.right>>
      [] Node.type = "VAR_ASGN"   -> <<Node.lval, Node.rval>>
      [] Node.type = "WHILE"      -> <<Node.expr, Node.body>>
      [] Node.type = "EXPR_STMT"  -> <<Node.expr>>
      [] Node.type = "UNARY_EXPR" -> <<Node.postfix_expr>>
      [] Node.type = "LVAL"       -> <<Node.ident>>
      [] Node.type \in {"INT_CONST", "EMPTY_EXPR"} -> <<>>

CheckParts ==
    /\ At("check")
    /\ Node.type \in {"IF", "BIN_EXP", "VAR_ASGN", "WHILE", "EXPR_STMT", "UNARY_EXPR",
                      "LVAL", "INT_CONST", "EMPTY_EXPR"}
    /\ Visit(Checks(Parts))
    /\ UNCHANGED <<prog, junk, scopes, syms, symOf, frame, params, func, used, verdict>>

FaultyCheckFor ==
    /\ Checking("FOR")
    /\ EnterScope
    /\ Visit(Checks(<<Node.init, Node.cond, Node.step>>) \o <<Leave, Check(Node.body)>>)
    /\ UNCHANGED <<prog, junk, syms, symOf, frame, params, func, used, verdict>>

CheckFor ==
    /\ Checking("FOR")
    /\ EnterScope
    /\ Visit(Checks(<<Node.init, Node.cond, Node.step, Node.body>>) \o <<Leave>>)
    /\ UNCHANGED <<prog, junk, syms, symOf, frame, params, func, used, verdict>>

(* A name visible anywhere in the chain may not be declared again.         *)
Redeclaration ==
    /\ At("check") /\ Node.type \in {"VAR_DEF", "VAR_DEC", "FUNC_DEF"}
    /\ InScope(Node.value)
    /\ Die("exit1")

(* The initialiser is checked before the name is added.                    *)
FaultyCheckVarDef ==
    /\ Checking("VAR_DEF") /\ ~InScope(Node.value)
    /\ Visit(<<DefineVar(Head1.node)>>)
    /\ UNCHANGED <<prog, junk, scopes, syms, symOf, frame, params, func, used, verdict>>
CheckVarDef ==
    /\ Checking("VAR_DEF") /\ ~InScope(Node.value)
    /\ Visit(<<Check(Node.expr), DefineVar(Head1.node)>>)
    /\ UNCHANGED <<prog, junk, scopes, syms, symOf, frame, params, func, used, verdict>>

FaultyStackFrameAdd == frame
StackFrameAdd  == [frame EXCEPT ![func] = @ + WordSize]

(* stackframe_add hands out the next word of the frame.                    *)
DeclareVar ==
    /\ \/ Checking("VAR_DEC") /\ ~InScope(Node.value)
       \/ At("define")
    /\ syms' = Append(syms, NewSym(Node.value, "VARIABLE", Node.ctype, frame[func], junk,
                                   func, <<Head1.node, 0>>))
    /\ frame' = StackFrameAdd
    /\ Bind(Head1.node, NextSym)
    /\ ScopeAdd(Node.value, NextSym)
    /\ Visit(<<>>)
    /\ UNCHANGED <<prog, junk, params, func, used, verdict>>

(* make_stack_frame: every function has a frame of its own, empty at first. *)
NewFrame(f) == Bound(frame, f, 0)

(* The parameters, then the function, go into the scope the definition is  *)
(* in, which is the global one; a parameter's offset is not set.           *)
CheckFuncDef ==
    /\ Checking("FUNC_DEF") /\ ~InScope(Node.value)
    /\ LET ps   == Node.params
           f    == NextSym + Len(ps)
           table == BoundAll(Scope, [i \in 1 .. Len(ps) |-> ps[i].value])
       IN  /\ syms' = syms
                \o [i \in 1 .. Len(ps) |-> NewSym(ps[i].value, "VARIABLE", ps[i].ctype,
                                                  junk, junk, f, <<Head1.node, i>>)]
                \o <<NewSym(Node.value, "FUNCTION", Node.ctype, junk, junk, f, <<Head1.node, 0>>)>>
           /\ frame' = NewFrame(f)
           /\ params' = Bound(params, f, [i \in 1 .. Len(ps) |-> Len(syms) + i])
           /\ func' = f
           /\ scopes' = Append(Front(scopes), Bound(table, Node.value, f))
           /\ Bind(Head1.node, f)
    /\ Visit(<<Check(Node.body)>>)
    /\ UNCHANGED <<prog, junk, used, verdict>>

CheckIdent ==
    /\ Checking("IDENT") /\ InScope(Node.value)
    /\ Bind(Head1.node, Lookup(Node.value))
    /\ used' = used \cup {Lookup(Node.value)}
    /\ Visit(<<>>)
    /\ UNCHANGED <<prog, junk, scopes, syms, frame, params, func, verdict>>

UndefinedIdent ==
    /\ Checking("IDENT") /\ ~InScope(Node.value)
    /\ Die("exit1")

(* entry->params is read before entry is compared with NULL, and means     *)
(* something only if the entry is a function's.                            *)
FaultyCallable(key) == InScope(key) /\ Lookup(key) \in DOMAIN params \ {func}
Callable(key) == InScope(key) /\ Lookup(key) \in DOMAIN params

CheckFuncCall ==
    /\ Checking("FUNC_CALL") /\ Callable(Node.value)
    /\ LET f == Lookup(Node.value) IN
       /\ Len(params[f]) = Len(Node.args)
       /\ Bind(Head1.node, f)
       /\ used' = used \cup {f}
    /\ Visit(Checks(Node.args))
    /\ UNCHANGED <<prog, junk, scopes, syms, frame, params, func, verdict>>

(* A name that is not a function's has a wild params: reading its length   *)
(* kills the compiler, or finds a length that does not match.              *)
BadCall ==
    /\ Checking("FUNC_CALL")
    /\ IF Callable(Node.value)
       THEN Len(params[Lookup(Node.value)]) # Len(Node.args) /\ Die("exit1")
       ELSE Die("crash") \/ (InScope(Node.value) /\ Die("exit1"))

(* The function of a return is looked up by the name of the frame.         *)
CheckRet ==
    /\ Checking("RET")
    /\ Bind(Head1.node, Lookup(syms[func].key))
    /\ Visit(<<Check(Node.expr)>>)
    /\ UNCHANGED <<prog, junk, scopes, syms, frame, params, func, used, verdict>>

CheckEnum ==
    /\ Checking("ENUM")
    /\ LET es == Node.enums
       IN  /\ syms' = syms \o [i \in 1 .. Len(es) |->
                          NewSym(es[i], "CONST", "int", junk, i - 1, func, <<Head1.node, i>>)]
           /\ scopes' = Append(Front(scopes), BoundAll(Scope, es))
    /\ Visit(<<>>)
    /\ UNCHANGED <<prog, junk, symOf, frame, params, func, used, verdict>>

-----------------------------------------------------------------------------
(* type_check: the type of every node, or "error" where assert_type_eq     *)
(* stops the compiler.  It checks no condition and no argument, and the    *)
(* left operand of a binary expression twice.                              *)

SymType(n) == syms[symOf[n]].ctype
TypeOf ==
    LET ns == prog.nodes
        Same(t1, t2, result) == IF t1 = t2 /\ t1 # "error" THEN result ELSE "error"
        ty[n \in DOMAIN ns] ==
          LET nd == ns[n]
              All(kids) == IF \E i \in DOMAIN kids : ty[kids[i]] = "error" THEN "error" ELSE "void"
          IN CASE nd.type = "COMP_STMT"  -> All(nd.stmts)
               [] nd.type = "IF"         -> All(IF nd.else_body = NULL THEN <<nd.if_body>>
                                                ELSE <<nd.if_body, nd.else_body>>)
               [] nd.type = "VAR_DEF"    -> Same(SymType(n), ty[nd.expr], "void")
               [] nd.type = "BIN_EXP"    -> Same(ty[nd.left], ty[nd.left], ty[nd.left])
               [] nd.type = "INT_CONST"  -> "int"
               [] nd.type = "FUNC_DEF"   -> All(<<nd.body>>)
               [] nd.type \in {"IDENT", "FUNC_CALL"} -> SymType(n)
               [] nd.type = "RET"        -> Same(SymType(n), ty[nd.expr], SymType(n))
               [] nd.type = "VAR_ASGN"   -> Same(ty[nd.lval], ty[nd.rval], ty[nd.lval])
               [] nd.type \in {"WHILE", "FOR"} -> ty[nd.body]
               [] nd.type = "EXPR_STMT"  -> ty[nd.expr]
               [] nd.type = "UNARY_EXPR" -> ty[nd.postfix_expr]
               [] nd.type \in {"ENUM", "VAR_DEC", "EMPTY_EXPR"} -> "void"
               [] nd.type = "LVAL"       -> SymType(nd.ident)
    IN ty

SymbolsDone ==
    /\ verdict = "symbols" /\ todo = <<>>
    /\ scopes' = Front(scopes)
    /\ verdict' = "types"
    /\ UNCHANGED <<prog, junk, todo, syms, symOf, frame, params, func, used>>

TypeCheck ==
    /\ verdict = "types"
    /\ verdict' = IF \E i \in DOMAIN prog.funcs : TypeOf[prog.funcs[i]] = "error"
                  THEN "exit1" ELSE "accepted"
    /\ UNCHANGED <<prog, junk, todo, scopes, syms, symOf, frame, params, func, used>>

Init ==
    /\ prog \in Programs
    /\ junk \in JunkWords
    /\ todo = Checks(prog.funcs)
    /\ scopes = << <<>> >>
    /\ syms = <<>>
    /\ symOf = <<>> /\ frame = <<>> /\ params = <<>>
    /\ func = NULL
    /\ used = {}
    /\ verdict = "symbols"

Case ==
    \/ CheckCompStmt \/ LeaveScope \/ CheckParts \/ CheckFor
    \/ Redeclaration \/ CheckVarDef \/ DeclareVar \/ CheckFuncDef
    \/ CheckIdent \/ UndefinedIdent \/ CheckFuncCall \/ BadCall
    \/ CheckRet \/ CheckEnum \/ SymbolsDone \/ TypeCheck

Stopped == verdict \in {"accepted", "exit1", "crash"} /\ UNCHANGED vars

Next == Case \/ Stopped

Spec == Init /\ [][Next]_vars

-----------------------------------------------------------------------------
(* Properties that need no definition of what C says.                      *)

(* Scopes and bindings name symbols that exist, frames have a size, and    *)
(* the parameters of a function are symbols.                               *)
TypeOK ==
    /\ junk \in JunkWords
    /\ \A i \in DOMAIN todo : /\ todo[i].act \in {"check", "define", "leave"}
                              /\ todo[i].node \in DOMAIN prog.nodes \cup {NULL}
    /\ \A i \in DOMAIN scopes : \A k \in DOMAIN scopes[i] : scopes[i][k] \in DOMAIN syms
    /\ \A n \in DOMAIN symOf : n \in DOMAIN prog.nodes /\ symOf[n] \in DOMAIN syms
    /\ \A s \in DOMAIN frame : frame[s] \in Nat /\ params[s] \in Seq(DOMAIN syms)
    /\ func \in DOMAIN frame \cup {NULL}
    /\ used \subseteq DOMAIN syms
    /\ verdict \in {"symbols", "types", "accepted", "exit1", "crash"}

(* What the symbol pass leaves in the tree is what the passes behind it    *)
(* dereference: every node that has an annotation was reached by sym_check *)
(* and given one.  And no two functions have the same name, nor does a call*)
(* name a function there is none of.  The theorems about the code generator*)
(* assume it.                                                              *)
Checked == [prog |-> prog, syms |-> syms, symOf |-> symOf, frame |-> frame, params |-> params]
HandsOver == verdict \in {"types", "accepted"} => InputOK(Checked)

(* Two locals of a function never share a word of its frame, whatever      *)
(* blocks they are in, and each is inside the frame size the code          *)
(* generator will reserve.                                                 *)
IsLocal(s) == syms[s].kind = "VARIABLE" /\ syms[s].decl[2] = 0
LocalsApart ==
    \A s, t \in DOMAIN syms :
        IsLocal(s) /\ IsLocal(t) /\ syms[s].owner = syms[t].owner
          => /\ syms[s].offset + WordSize <= frame[syms[s].owner]
             /\ s < t => syms[s].offset + WordSize <= syms[t].offset

=============================================================================
