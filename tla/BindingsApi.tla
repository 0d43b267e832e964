---------------------------- MODULE BindingsApi ----------------------------
(***************************************************************************)
(* The functions of the Rust bindings, src/bac/bindgen/rust/src/           *)
(* generated.rs, as far as nodes cross the boundary.  The raw functions    *)
(* (impl Proc) hand node ids to the library; the safe functions (impl      *)
(* Builder, IfState, LoopState, BlockState) take references to nodes and   *)
(* turn each into an id before they call the raw one.                      *)
(***************************************************************************)
EXTENDS Integers

(* n node parameters, a `&mut' one included, and `outs' nodes returned. *)
Nodes(n, outs) == [nodes |-> n, slice |-> FALSE, outs |-> outs]

(* One parameter that is a slice of nodes. *)
Slice(outs) == [nodes |-> 0, slice |-> TRUE, outs |-> outs]

Api(shape, names) == {[name |-> name, shape |-> shape] : name \in names}

-----------------------------------------------------------------------------
(* The raw functions, in the order of the file. *)

(* push_scope_value to add_return *)
Raw1 ==
    Api(Nodes(0, 0), {"loopopt", "memopt"})
 \cup Api(Nodes(0, 1), {"add_poison", "add_proc_addr"})
 \cup Api(Slice(1), {"merge_return", "add_region", "add_return"})
 \cup Api(Nodes(1, 0), {"delete_scope", "truncate_scope"})
 \cup Api(Nodes(1, 1), {
        "add_local_addr", "add_local", "add_loop", "add_jump",
        "add_param", "add_ret"})
 \cup Api(Nodes(2, 0), {"push_scope_value", "set_scope_value"})
 \cup Api(Nodes(3, 1), {"add_phi"})

(* add_select to add_un_op *)
Raw2 ==
    Api(Nodes(1, 1), {
        "add_split", "add_split_mem", "add_sym", "add_then",
        "add_global_addr", "add_mem", "apply_peep", "add_un_op"})
 \cup Api(Nodes(2, 1), {"add_if"})
 \cup Api(Nodes(3, 1), {"add_select", "add_load"})
 \cup Api(Nodes(4, 1), {"add_store"})
 \cup Api(Nodes(5, 1), {"add_set"})

(* connect to add_arbitrary_load *)
Raw3 ==
    Api(Nodes(0, 1), {
        "find_or_create_node", "get_sym_count", "add_entry"})
 \cup Api(Slice(1), {"add_end"})
 \cup Api(Nodes(1, 0), {
        "delete_node_node_id", "pin", "unpin", "set_local_size"})
 \cup Api(Nodes(1, 1), {"find_node", "add_else", "add_call_end"})
 \cup Api(Nodes(2, 0), {"connect"})
 \cup Api(Nodes(2, 1), {"add_dbg_sym_update", "set_input"})
 \cup Api(Nodes(3, 1), {"add_arbitrary_load"})
 \cup Api(Nodes(5, 1), {"add_copy"})

(* add_field_load to end_if *)
Raw4 ==
    Api(Nodes(1, 0), {"decl_local"})
 \cup Api(Nodes(1, 1), {
        "add_scope", "add_field_offset", "break_block", "end_block",
        "end_else", "end_if"})
 \cup Api(Nodes(2, 1), {"add_lazy_phi", "compute_index_offset"})
 \cup Api(Nodes(3, 1), {"add_field_load"})
 \cup Api(Nodes(4, 1), {"add_field_store", "add_arbitrary_store"})

(* add_dbg_scope to start_loop *)
Raw5 ==
    Api(Nodes(0, 1), {"add_c_int", "add_dbg_sym_decl", "add_global"})
 \cup Api(Slice(1), {
        "add_dbg_scope", "add_always", "add_call", "add_merge_mem",
        "add_trap"})
 \cup Api(Slice(2), {"make_call"})
 \cup Api(Nodes(1, 0), {"start_loop"})
 \cup Api(Nodes(1, 1), {"end_loop", "start_else", "get_scope_value"})
 \cup Api(Nodes(2, 0), {"start_if"})
 \cup Api(Nodes(2, 1), {"add_bin_op"})

(* start_loop_increment to start_loop_increment *)
Raw6 ==
    Api(Nodes(1, 1), {"start_loop_increment"})

Raw == Raw1 \cup Raw2 \cup Raw3 \cup Raw4 \cup Raw5 \cup Raw6

-----------------------------------------------------------------------------
(* The safe functions: how many nodes they check and whether they take a   *)
(* slice through with_node_ids.                                             *)

(* push_scope_value to add_return *)
Safe1 ==
    Api(Nodes(0, 0), {"loopopt", "memopt"})
 \cup Api(Nodes(0, 1), {"add_poison", "add_proc_addr"})
 \cup Api(Slice(1), {"merge_return", "add_region", "add_return"})
 \cup Api(Nodes(1, 0), {"delete_scope", "truncate_scope"})
 \cup Api(Nodes(1, 1), {
        "add_local_addr", "add_local", "add_loop", "add_jump",
        "add_param", "add_ret"})
 \cup Api(Nodes(2, 0), {"push_scope_value", "set_scope_value"})
 \cup Api(Nodes(3, 1), {"add_phi"})

(* Variant: connect passes its second node on without checking it. *)
Safe2Unchecked ==
    Api(Nodes(1, 0), {"delete_node_node_id", "connect"})
 \cup Api(Nodes(1, 1), {
        "add_split", "add_split_mem", "add_sym", "add_then",
        "add_global_addr", "add_mem", "apply_peep", "add_un_op"})
 \cup Api(Nodes(2, 1), {"add_if"})
 \cup Api(Nodes(3, 1), {"add_select", "add_load"})
 \cup Api(Nodes(4, 1), {"add_store"})
 \cup Api(Nodes(5, 1), {"add_set"})

(* add_select to delete_node_node_id *)
Safe2 ==
    Api(Nodes(1, 0), {"delete_node_node_id"})
 \cup Api(Nodes(1, 1), {
        "add_split", "add_split_mem", "add_sym", "add_then",
        "add_global_addr", "add_mem", "apply_peep", "add_un_op"})
 \cup Api(Nodes(2, 0), {"connect"})
 \cup Api(Nodes(2, 1), {"add_if"})
 \cup Api(Nodes(3, 1), {"add_select", "add_load"})
 \cup Api(Nodes(4, 1), {"add_store"})
 \cup Api(Nodes(5, 1), {"add_set"})

(* find_node to add_field_load *)
Safe3 ==
    Api(Nodes(0, 1), {
        "find_or_create_node", "get_sym_count", "add_entry"})
 \cup Api(Slice(1), {"add_end"})
 \cup Api(Nodes(1, 0), {"pin", "unpin", "set_local_size"})
 \cup Api(Nodes(1, 1), {"find_node", "add_else", "add_call_end"})
 \cup Api(Nodes(2, 1), {"add_dbg_sym_update", "set_input"})
 \cup Api(Nodes(3, 1), {"add_arbitrary_load", "add_field_load"})
 \cup Api(Nodes(5, 1), {"add_copy"})

(* add_field_store to add_merge_mem *)
Safe4 ==
    Api(Nodes(0, 1), {"add_c_int", "add_dbg_sym_decl", "add_global"})
 \cup Api(Slice(1), {
        "add_dbg_scope", "add_always", "add_call", "add_merge_mem"})
 \cup Api(Nodes(1, 0), {"decl_local"})
 \cup Api(Nodes(1, 1), {"add_scope", "add_field_offset"})
 \cup Api(Nodes(2, 1), {
        "add_lazy_phi", "compute_index_offset", "add_bin_op"})
 \cup Api(Nodes(4, 1), {"add_field_store", "add_arbitrary_store"})

(* add_trap to get_scope_value *)
Safe5 ==
    Api(Slice(1), {"add_trap"})
 \cup Api(Slice(2), {"make_call"})
 \cup Api(Nodes(1, 1), {"get_scope_value"})

(* end_else to end_block *)
Safe6 ==
    Api(Nodes(1, 0), {"start_loop"})
 \cup Api(Nodes(1, 1), {
        "end_else", "end_if", "start_else", "end_loop",
        "start_loop_increment", "break_block", "end_block"})
 \cup Api(Nodes(2, 0), {"start_if"})

Safe == Safe1 \cup Safe2 \cup Safe3 \cup Safe4 \cup Safe5 \cup Safe6
=============================================================================
