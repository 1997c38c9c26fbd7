SPECIFICATION MCSpec
CONSTANTS
  Examples = {"rust_aoc", "cpp_aoc", "js_aoc", "python_aoc", "java_aoc", "ruby_aoc", "csharp_aoc", "rust_faspex5", "go_faspex5", "js_faspex5", "java_faspex5", "python_faspex5", "rust_server"}
  Workspaces = {w1, w2}
  Deliveries = {d1, d2}
  None = None
  MaxFiles = 3
CHECK_DEADLOCK FALSE
INVARIANTS SuccessDelivers DeliveredOnce NoEmptyPackages AllFilesSent
SYMMETRY Symmetry
