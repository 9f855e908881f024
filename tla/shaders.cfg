SPECIFICATION Spec
CONSTANTS
    t1 = t1
    t2 = t2
    image = image
    canvas = canvas
    size = size
    filter = filter
    other = other
    noise = noise
    fade = fade
    draw = draw
    sketch = sketch
    paint = paint
    broken = broken
    blur = blur
    Thread = {t1, t2}
    Proxy = {image, canvas, size, filter, other}
    Kind <- KindDef
    Owner <- OwnerDef
    Function = {noise, fade}
    Pipeline = {draw, sketch, paint, broken, blur}
    User <- UserDef
    Stages <- StagesDef
    LambdaOf <- LambdaOfDef
    Threads <- ThreadsDef
    Bindless <- BindlessDef
    MaxCompiles <- MaxCompilesDef
INVARIANTS TextsStandAlone OwnStages ReleaseServesTheSame TargetsBound
CHECK_DEADLOCK FALSE
