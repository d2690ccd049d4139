CONSTANTS
    root = root  inner = inner  outer = outer
    file = file  private = private  pipe = pipe  link = link  x = x  y = y  admin = admin
    Dirs = {root, inner, outer}
    Files = {file, private}
    Links = {link}
    Others = {pipe}
    Names = {x, y, admin}
    Protected = {admin}
    Root = root
    Trees <- MCTrees
    Target <- MCTarget
    Paths <- MCPaths
    None = None
    MaxChanges = 2
SPECIFICATION Spec
INVARIANTS Confined ReadsInside
CHECK_DEADLOCK FALSE
